---- MODULE Spec2Model ----
(***************************************************************************)
(* Model of the RARSMS APRS connector (services/aprs-connector/src):       *)
(* the APRSClient session (Connect / Disconnect / Listen / heartbeat),     *)
(* the inbound pipeline (handleAPRSPacket, storeMessage, sendACK), the     *)
(* supervisor loop runService and main's shutdown sequence.                *)
(*                                                                         *)
(* Text is modelled as a sequence of one-character strings.                *)
(***************************************************************************)
EXTENDS Integers, Sequences, FiniteSets, TLC

(***************************************************************************)
(* Bounds of the model.                                                    *)
(***************************************************************************)
\* successful Connect calls per behaviour
MaxSessions == 2
\* lines the APRS-IS server sends in the single-session specification
MaxLines == 2
\* lines the APRS-IS server sends in the whole-program specification
LifeLines == 1
\* failing Record Store requests in the single-session specification
MaxFaults == 1
\* heartbeat ticks per behaviour
MaxBeacons == 1
\* outbound jobs the Record Store holds
MaxJobs == 2
\* ticks of the dispatcher's ticker per behaviour
MaxPolls == 2
\* length of the texts truncateForAPRS is applied to; the texts
\* sanitizeMessageContent is applied to are one shorter
MaxText == 5
\* largest limit truncateForAPRS is applied with
MaxLimit == 4
\* most padding spaces after the recipient of a message line
MaxPad == 2

(***************************************************************************)
(* Characters and strings.                                                 *)
(***************************************************************************)
UpperSeq ==
  <<"A","B","C","D","E","F","G","H","I","J","K","L","M",
    "N","O","P","Q","R","S","T","U","V","W","X","Y","Z">>

LowerSeq ==
  <<"a","b","c","d","e","f","g","h","i","j","k","l","m",
    "n","o","p","q","r","s","t","u","v","w","x","y","z">>

DigitChars == {"0","1","2","3","4","5","6","7","8","9"}

Range(s) == {s[i] : i \in 1..Len(s)}

\* the element of a singleton.  The({e : x \in {v}}) is e with x bound to
\* the value v, computed once.
The(S) == CHOOSE y \in S : TRUE

UpperChars == Range(UpperSeq)

LowerChars == Range(LowerSeq)

IsUpper(c) == c \in UpperChars

IsLower(c) == c \in LowerChars

IsDigit(c) == c \in DigitChars

\* unicode.IsSpace as used by strings.TrimSpace, on the characters of the
\* model (the vertical tab and the non-ASCII spaces are not in the alphabet)
IsSpace(c) == c \in {" ", "\t", "\n", "\r", "\f"}

\* the regexp class \s
IsRegexSpace(c) == c \in {" ", "\t", "\n", "\r", "\f"}

ToUpperChar(c) ==
  IF IsLower(c) THEN UpperSeq[CHOOSE i \in 1..26 : LowerSeq[i] = c] ELSE c

\* strings.ToUpper
ToUpper(s) == [i \in 1..Len(s) |-> ToUpperChar(s[i])]

\* strings.TrimSpace
TrimSpace(s) ==
  The({ IF keep = {} THEN <<>>
        ELSE SubSeq(s, CHOOSE i \in keep : \A j \in keep : i <= j,
                       CHOOSE i \in keep : \A j \in keep : i >= j)
        : keep \in {{i \in 1..Len(s) : ~IsSpace(s[i])}} })

\* strings.HasPrefix
HasPrefix(s, p) == Len(s) >= Len(p) /\ SubSeq(s, 1, Len(p)) = p

\* strings.Contains
Contains(s, p) ==
  \E i \in 1..(Len(s) - Len(p) + 1) : SubSeq(s, i, i + Len(p) - 1) = p

(***************************************************************************)
(* messageRegex:                                                           *)
(*  ^([A-Z0-9-]+)>([^,]+),.*?::([A-Z0-9-]+)\s*:(.+?)(?:\{([A-Za-z0-9]+))?$ *)
(* matched with Go's leftmost-first semantics.                             *)
(***************************************************************************)
\* [A-Z0-9-]
IsCallChar(c) == IsUpper(c) \/ IsDigit(c) \/ c = "-"

\* [A-Za-z0-9]
IsAlnum(c) == IsUpper(c) \/ IsLower(c) \/ IsDigit(c)

\* first position >= i whose character is outside the class (Len+1 if none)
CallEnd(s, i) ==
  CHOOSE j \in i..(Len(s) + 1) :
    /\ \A k \in i..(j - 1) : IsCallChar(s[k])
    /\ (j = Len(s) + 1 \/ ~IsCallChar(s[j]))

SpaceEnd(s, i) ==
  CHOOSE j \in i..(Len(s) + 1) :
    /\ \A k \in i..(j - 1) : IsRegexSpace(s[k])
    /\ (j = Len(s) + 1 \/ ~IsRegexSpace(s[j]))

NoMatch == [ok |-> FALSE]

\* (?:\{([A-Za-z0-9]+))?$ at position e+1: the rest is empty or {id
TailOK(s, e) ==
  \/ e = Len(s)
  \/ /\ e + 2 <= Len(s)
     /\ s[e + 1] = "{"
     /\ \A k \in (e + 2)..Len(s) : IsAlnum(s[k])

\* the least element of a non-empty set of positions
First(S) == CHOOSE x \in S : \A y \in S : x <= y

\* (.+?)(?:\{([A-Za-z0-9]+))?$ after the colon at position p: the lazy
\* group ends at the first position the tail matches from; '.' does not
\* match a newline
ContentEnds(s, p) ==
  {e \in (p + 1)..Len(s) :
     /\ \A j \in (p + 1)..e : s[j] # "\n"
     /\ TailOK(s, e)}

\* ([A-Z0-9-]+)\s*:(.+?)(?:\{([A-Za-z0-9]+))?$ starting at position k
MatchAddressee(s, k) ==
  The({ The({
    IF e3 = k \/ p > Len(s) \/ s[p] # ":" \/ ends = {}
    THEN NoMatch
    ELSE The({ [ok |-> TRUE,
                g3 |-> SubSeq(s, k, e3 - 1),
                g4 |-> SubSeq(s, p + 1, e),
                g5 |-> IF e = Len(s) THEN <<>> ELSE SubSeq(s, e + 2, Len(s))]
               : e \in {First(ends)} })
    : ends \in {ContentEnds(s, p)} })
    : e3 \in {CallEnd(s, k)}, p \in {SpaceEnd(s, CallEnd(s, k))} })

\* positions of a "::" after the comma at c that the lazy .*? can stop at
AddresseeStarts(s, c) ==
  {q \in (c + 1)..(Len(s) - 1) :
     /\ s[q] = ":" /\ s[q + 1] = ":"
     /\ \A j \in (c + 1)..(q - 1) : s[j] # "\n"
     /\ MatchAddressee(s, q + 2).ok}

\* messageRegex.FindStringSubmatch
FindStringSubmatch(s) ==
  The({
    IF e1 = 1 \/ e1 > Len(s) \/ s[e1] # ">" \/ commas = {}
    THEN NoMatch
    ELSE The({ The({
           IF c = e1 + 1 \/ cands = {}
           THEN NoMatch
           ELSE The({ [ok |-> TRUE,
                       g1 |-> SubSeq(s, 1, e1 - 1),
                       g2 |-> SubSeq(s, e1 + 1, c - 1),
                       g3 |-> m.g3, g4 |-> m.g4, g5 |-> m.g5]
                      : m \in {MatchAddressee(s, First(cands) + 2)} })
           : cands \in {AddresseeStarts(s, c)} })
           : c \in {First(commas)} })
    : e1 \in {CallEnd(s, 1)},
      commas \in {{i \in (CallEnd(s, 1) + 1)..Len(s) : s[i] = ","}} })

\* a parser that takes every line for a message to the bridge
parseAPRSMessageAnyLine(rawPacket) ==
  [err |-> FALSE, FromCallsign |-> ToUpper(rawPacket),
   ToCallsign |-> <<"R","S">>, Content |-> rawPacket, MessageID |-> <<>>]

\* parseAPRSMessage: err = TRUE is "packet is not a message format"
parseAPRSMessage(rawPacket) ==
  The({
    IF ~matches.ok
    THEN [err |-> TRUE]
    ELSE [err |-> FALSE,
          FromCallsign |-> ToUpper(matches.g1),
          ToCallsign   |-> ToUpper(matches.g3),
          Content      |-> TrimSpace(matches.g4),
          MessageID    |-> matches.g5]
    : matches \in {FindStringSubmatch(rawPacket)} })

(***************************************************************************)
(* Text functions of the dispatcher: isValidMessageContent,                *)
(* sanitizeMessageContent and truncateForAPRS.  len() counts bytes; every  *)
(* character of the model is one byte.                                     *)
(***************************************************************************)
DigitSeq == <<"0","1","2","3","4","5","6","7","8","9">>

IndexOf(seq, c) == CHOOSE i \in 1..Len(seq) : seq[i] = c

\* the code point of a character of the model
Code(c) ==
  IF IsUpper(c) THEN 64 + IndexOf(UpperSeq, c)
  ELSE IF IsLower(c) THEN 96 + IndexOf(LowerSeq, c)
  ELSE IF IsDigit(c) THEN 47 + IndexOf(DigitSeq, c)
  ELSE CASE c = "\t" -> 9
         [] c = "\n" -> 10
         [] c = "\f" -> 12
         [] c = "\r" -> 13
         [] c = " "  -> 32
         [] c = "!"  -> 33
         [] c = "#"  -> 35
         [] c = "*"  -> 42
         [] c = ","  -> 44
         [] c = "-"  -> 45
         [] c = "."  -> 46
         [] c = ":"  -> 58
         [] c = ">"  -> 62
         [] c = "{"  -> 123

isValidNonEmpty(content) == content # <<>>

\* isValidMessageContent
isValidMessageContent(content) ==
  /\ content # <<>>
  /\ \A i \in 1..Len(content) :
       ~(Code(content[i]) < 32 /\ Code(content[i]) # 9
           /\ Code(content[i]) # 10 /\ Code(content[i]) # 13)

\* the characters sanitizeMessageContent does not skip
IsKept(c) == Code(c) >= 32 \/ Code(c) = 9 \/ Code(c) = 10 \/ Code(c) = 13

\* sanitizeMessageContent that keeps the line endings
sanitizeKeepLineEndings(content) == SelectSeq(content, IsKept)

\* sanitizeMessageContent: the loop appends a printable character or a tab
\* as it is and a space for a line ending, and skips the other characters
sanitizeMessageContent(content) ==
  The({ [i \in 1..Len(kept) |->
           IF Code(kept[i]) = 10 \/ Code(kept[i]) = 13 THEN " " ELSE kept[i]]
        : kept \in {SelectSeq(content, IsKept)} })

Ellipsis == <<".", ".", ".">>

\* the run-time panic "slice bounds out of range"
SlicePanic == [panic |-> TRUE]

Returns(s) == [panic |-> FALSE, s |-> s]

\* truncateForAPRS that cuts at maxLength and appends no ellipsis
truncateNoEllipsis(content, maxLength) ==
  IF Len(content) <= maxLength THEN Returns(content)
  ELSE Returns(SubSeq(content, 1, maxLength))

\* truncateForAPRS that returns the content as it is
truncateNothing(content, maxLength) == Returns(content)

\* truncateForAPRS: content[:maxLength-3] panics when maxLength-3 < 0
truncateForAPRS(content, maxLength) ==
  IF Len(content) <= maxLength THEN Returns(content)
  ELSE IF maxLength - 3 < 0 THEN SlicePanic
  ELSE Returns(SubSeq(content, 1, maxLength - 3) \o Ellipsis)

(***************************************************************************)
(* Configuration (config.go) and the inputs of the model.                  *)
(***************************************************************************)
\* config.APRS.Callsign, the bridge's own callsign
Callsign == <<"R","S">>

\* inbound lines the APRS-IS server can send
LineMemberId   == <<"A","1",">","X",",","Y",":",":","R","S"," ",":","h","i","{","1">>
LineMemberNoId == <<"A","1",">","X",",","Y",":",":","R","S"," ",":","h","i">>
LineGuestId    == <<"B","2",">","X",",","Y",":",":","R","S"," ",":","h","i","{","7">>
LineGuestNoId  == <<"B","2",">","X",",","Y",":",":","R","S"," ",":","h","i">>
LineOther      == <<"A","1",">","X",",","Y",":",":","Z","Z"," ",":","h","i","{","1">>
LineComment    == <<"#"," ","o","k">>
LinePosition   == <<"A","1",">","X",":","!","p">>
LineBlank      == <<" ">>

\* a server comment that contains "::"
LineCommentColons == <<"#"," ",":",":">>

\* every kind of line
Lines ==
  {LineMemberId, LineMemberNoId, LineGuestId, LineGuestNoId,
   LineOther, LineComment, LinePosition, LineBlank}

\* the message lines
MessageLines ==
  {LineMemberId, LineMemberNoId, LineGuestId, LineGuestNoId, LineOther}

\* the lines handleAPRSPacket drops without looking up the sender
SkippedLines ==
  {LineComment, LineCommentColons, LinePosition, LineBlank, LineOther}

\* contents of the outbound jobs other services create: an empty text, one
\* with a form feed, one with line endings and a tab, and texts of 67 and
\* of 100 characters
Digits(n) == [i \in 1..n |-> DigitSeq[(i % 10) + 1]]

ContentEmpty == <<>>

ContentControl == <<"a", "\f", "b">>

ContentLines == <<"a", "\n", "b", "\r", "\t", "c">>

ContentAtLimit == Digits(67)

ContentLong == Digits(100)

JobContents ==
  {ContentEmpty, ContentControl, ContentLines, ContentAtLimit, ContentLong}

\* the metadata of a message record; a key the map lacks is the empty
\* string
Meta(target, error, aprsMessageID, truncatedContent, deliveryMethod) ==
  [target_callsign |-> target, error |-> error,
   aprs_message_id |-> aprsMessageID, truncated_content |-> truncatedContent,
   delivery_method |-> deliveryMethod]

\* the k-th outbound job, as the other services create it: the odd jobs
\* name their target in the metadata, the even ones do not
Job(k, content) ==
  [id |-> k, pid |-> 0, correlation_id |-> 100 + k,
   from_callsign |-> IF k % 2 = 1 THEN <<"D","C">> ELSE <<"B","2">>,
   from_service |-> "discord", to_service |-> "aprs",
   content |-> content, status |-> "pending",
   metadata |-> IF k % 2 = 1 THEN Meta(<<"A","1">>, "", <<>>, <<>>, "")
                ELSE Meta(<<>>, "", <<>>, <<>>, "")]

\* the message collections a behaviour of the dispatcher starts with
JobLists ==
  UNION {{[k \in 1..n |-> Job(k, c[k])] : c \in [1..n -> JobContents]}
         : n \in 1..MaxJobs}

\* content of the Record Store the connector only reads: member_profiles
\* (callsign -> user) and users (user -> approved)
MemberProfiles ==
  [c \in {<<"A","1">>, <<"C","3">>} |-> IF c = <<"A","1">> THEN "u1" ELSE "u2"]

UsersApproved == [u \in {"u1", "u2"} |-> u = "u1"]

(***************************************************************************)
(* Record Store client (database.go).  Every HTTP request the client makes *)
(* has an outcome: "ok" (the store answers 2xx from its data), "neterr"    *)
(* (makeRequest returns an error) or "http5xx" (a non-2xx answer).         *)
(* Each operation returns the new store, its error and the set of the      *)
(* requests it made.                                                       *)
(***************************************************************************)
Outcomes == {"ok", "neterr", "http5xx"}

Requests ==
  {"audit", "member", "user", "uid", "msg", "convGet", "convPut", "log",
   "statGet", "statPut", "pending", "patch"}

AllOk == [q \in Requests |-> "ok"]

\* assignments of an outcome to every request with at most n failures
FaultPlansUpTo[n \in 0..MaxFaults] ==
  IF n = 0 THEN {AllOk}
  ELSE FaultPlansUpTo[n - 1] \cup
       {[p EXCEPT ![q] = o] :
          p \in FaultPlansUpTo[n - 1], q \in Requests, o \in Outcomes \ {"ok"}}

Faulty(r) == {q \in Requests : r[q] # "ok"}

\* IsAuthorizedMember that asks for no approval of the linked account
IsAuthorizedMemberAnyAccount(callsign, r) ==
  LET cs == ToUpper(callsign)
  IN  IF r["member"] = "neterr" THEN [res |-> FALSE, err |-> TRUE, used |-> {"member"}]
      ELSE IF r["member"] = "http404"
           THEN [res |-> FALSE, err |-> FALSE, used |-> {"member"}]
      ELSE IF r["member"] # "ok" THEN [res |-> FALSE, err |-> TRUE, used |-> {"member"}]
      ELSE IF cs \notin DOMAIN MemberProfiles
           THEN [res |-> FALSE, err |-> FALSE, used |-> {"member"}]
      ELSE IF r["user"] = "neterr"
           THEN [res |-> FALSE, err |-> TRUE, used |-> {"member", "user"}]
      ELSE IF r["user"] # "ok"
           THEN [res |-> FALSE, err |-> FALSE, used |-> {"member", "user"}]
      ELSE [res |-> TRUE, err |-> FALSE, used |-> {"member", "user"}]

\* IsAuthorizedMember: a 404 answer to the member query is "member not
\* found", any other answer that is not 200 an error
IsAuthorizedMember(callsign, r) ==
  LET cs == ToUpper(callsign)
  IN  IF r["member"] = "neterr" THEN [res |-> FALSE, err |-> TRUE, used |-> {"member"}]
      ELSE IF r["member"] = "http404"
           THEN [res |-> FALSE, err |-> FALSE, used |-> {"member"}]
      ELSE IF r["member"] # "ok" THEN [res |-> FALSE, err |-> TRUE, used |-> {"member"}]
      ELSE IF cs \notin DOMAIN MemberProfiles
           THEN [res |-> FALSE, err |-> FALSE, used |-> {"member"}]
      ELSE IF r["user"] = "neterr"
           THEN [res |-> FALSE, err |-> TRUE, used |-> {"member", "user"}]
      ELSE IF r["user"] # "ok"
           THEN [res |-> FALSE, err |-> FALSE, used |-> {"member", "user"}]
      ELSE [res |-> UsersApproved[MemberProfiles[cs]], err |-> FALSE,
            used |-> {"member", "user"}]

\* GetUserIDByCallsign: id = "" is the empty user id
GetUserIDByCallsign(callsign, r) ==
  LET cs == ToUpper(callsign)
  IN  IF r["uid"] = "neterr" THEN [id |-> "", err |-> TRUE, used |-> {"uid"}]
      ELSE IF r["uid"] # "ok" THEN [id |-> "", err |-> FALSE, used |-> {"uid"}]
      ELSE IF cs \notin DOMAIN MemberProfiles
           THEN [id |-> "", err |-> FALSE, used |-> {"uid"}]
      ELSE [id |-> MemberProfiles[cs], err |-> FALSE, used |-> {"uid"}]

\* CreateMessage
CreateMessage(db, messageData, r) ==
  IF r["msg"] = "ok"
  THEN [db |-> [db EXCEPT !.messages = Append(@, messageData)],
        err |-> FALSE, used |-> {"msg"}]
  ELSE [db |-> db, err |-> TRUE, used |-> {"msg"}]

\* CreateAPRSPacket
CreateAPRSPacket(db, packetData, r) ==
  IF r["audit"] = "ok"
  THEN [db |-> [db EXCEPT !.packets = Append(@, packetData)],
        err |-> FALSE, used |-> {"audit"}]
  ELSE [db |-> db, err |-> TRUE, used |-> {"audit"}]

\* LogEvent
LogEvent(db, level, eventType, correlationID, pid, r) ==
  IF r["log"] = "ok"
  THEN [db |-> [db EXCEPT !.logs =
                  Append(@, [level |-> level, service |-> "aprs",
                             event_type |-> eventType,
                             correlation_id |-> correlationID, pid |-> pid])],
        err |-> FALSE, used |-> {"log"}]
  ELSE [db |-> db, err |-> TRUE, used |-> {"log"}]

\* index of the first record of a sequence that satisfies a field test, 0 if none
FirstIndex(seq, field, value) ==
  IF \E i \in 1..Len(seq) : seq[i][field] = value
  THEN CHOOSE i \in 1..Len(seq) :
         /\ seq[i][field] = value
         /\ \A j \in 1..(i - 1) : seq[j][field] # value
  ELSE 0

\* UpdateSystemStatus(service = "aprs-connector", status, metadata): query,
\* then PATCH the first record found or POST a new one
UpdateSystemStatus(db, status, meta, r) ==
  LET statusData == [service |-> "aprs-connector", status |-> status, meta |-> meta]
      i == FirstIndex(db.status, "service", "aprs-connector")
  IN  IF r["statGet"] = "neterr"
      THEN [db |-> db, err |-> TRUE, used |-> {"statGet"}]
      ELSE IF r["statGet"] = "ok" /\ i > 0
      THEN IF r["statPut"] = "ok"
           THEN [db |-> [db EXCEPT !.status[i] = statusData],
                 err |-> FALSE, used |-> {"statGet", "statPut"}]
           ELSE [db |-> db, err |-> TRUE, used |-> {"statGet", "statPut"}]
      ELSE IF r["statPut"] = "ok"
           THEN [db |-> [db EXCEPT !.status = Append(@, statusData)],
                 err |-> FALSE, used |-> {"statGet", "statPut"}]
           ELSE [db |-> db, err |-> TRUE, used |-> {"statGet", "statPut"}]

\* the subject preview of a conversation: the first 50 characters
TruncateSubject(subject) ==
  IF Len(subject) > 50 THEN SubSeq(subject, 1, 47) \o <<".", ".", ".">>
  ELSE subject

\* CreateOrUpdateConversation
CreateOrUpdateConversation(db, correlationID, userID, subject, r) ==
  LET i == FirstIndex(db.conversations, "correlation_id", correlationID)
      conversationData ==
        [correlation_id |-> correlationID, subject |-> TruncateSubject(subject),
         initiated_by |-> userID, message_count |-> 1]
  IN  IF r["convGet"] = "neterr"
      THEN [db |-> db, err |-> TRUE, used |-> {"convGet"}]
      ELSE IF r["convGet"] = "ok" /\ i > 0
      THEN IF r["convPut"] = "ok"
           THEN [db |-> [db EXCEPT !.conversations[i] =
                           [conversationData EXCEPT
                              !.message_count = db.conversations[i].message_count + 1]],
                 err |-> FALSE, used |-> {"convGet", "convPut"}]
           ELSE [db |-> db, err |-> TRUE, used |-> {"convGet", "convPut"}]
      ELSE IF r["convPut"] = "ok"
           THEN [db |-> [db EXCEPT !.conversations = Append(@, conversationData)],
                 err |-> FALSE, used |-> {"convGet", "convPut"}]
           ELSE [db |-> db, err |-> TRUE, used |-> {"convGet", "convPut"}]

Reverse(seq) == [i \in 1..Len(seq) |-> seq[Len(seq) + 1 - i]]

\* the filter of GetPendingMessages: to_service='aprs' && status='pending'
IsPendingJob(m) == m.to_service = "aprs" /\ m.status = "pending"

\* GetPendingMessages: the pending jobs, newest first (sort=-created)
GetPendingMessages(db, r) ==
  IF r["pending"] # "ok"
  THEN [items |-> <<>>, err |-> TRUE, used |-> {"pending"}]
  ELSE [items |-> Reverse(SelectSeq(db.messages, IsPendingJob)),
        err |-> FALSE, used |-> {"pending"}]

\* indices of the message records with an id
RecordsWithId(db, messageID) ==
  {i \in DOMAIN db.messages :
     "id" \in DOMAIN db.messages[i] /\ db.messages[i].id = messageID}

\* UpdateMessageStatus: PATCH of status and metadata; the store answers 404
\* for an id it does not have
UpdateMessageStatus(db, messageID, status, metadata, r) ==
  IF r["patch"] # "ok" \/ RecordsWithId(db, messageID) = {}
  THEN [db |-> db, err |-> TRUE, used |-> {"patch"}]
  ELSE [db |-> [db EXCEPT !.messages =
                  [i \in DOMAIN db.messages |->
                     IF i \in RecordsWithId(db, messageID)
                     THEN [db.messages[i] EXCEPT !.status = status,
                                                 !.metadata = metadata]
                     ELSE db.messages[i]]],
        err |-> FALSE, used |-> {"patch"}]

(***************************************************************************)
(* Inbound pipeline (aprs.go): the part of handleAPRSPacket that runs      *)
(* before the socket is touched.                                           *)
(***************************************************************************)
ColonColon == <<":", ":">>

\* storeRawPacket that files every line as a message
storeRawPacketAsMessage(db, rawPacket, pid, r) ==
  The({ CreateAPRSPacket(db,
          [pid |-> pid, raw_packet |-> rawPacket,
           packet_type   |-> "message",
           from_callsign |-> IF matches.ok THEN ToUpper(matches.g1) ELSE <<>>,
           to_callsign   |-> IF matches.ok THEN ToUpper(matches.g3) ELSE <<>>],
          r)
        : matches \in {FindStringSubmatch(rawPacket)} })

\* storeRawPacket; pid numbers the inbound line and is bookkeeping of the model
storeRawPacket(db, rawPacket, pid, r) ==
  The({ CreateAPRSPacket(db,
          [pid |-> pid, raw_packet |-> rawPacket,
           packet_type   |-> IF isMsg THEN "message" ELSE "other",
           from_callsign |-> IF isMsg /\ matches.ok THEN ToUpper(matches.g1) ELSE <<>>,
           to_callsign   |-> IF isMsg /\ matches.ok THEN ToUpper(matches.g3) ELSE <<>>],
          r)
        : matches \in {FindStringSubmatch(rawPacket)},
          isMsg \in {Contains(rawPacket, ColonColon)} })

\* the record storeMessage hands to CreateMessage
messageData(message, correlationID, userID, pid) ==
  [pid |-> pid, correlation_id |-> correlationID,
   from_callsign |-> message.FromCallsign,
   from_service |-> "aprs", to_service |-> "discord",
   content |-> message.Content, status |-> "pending",
   aprs_message_id |-> message.MessageID, user |-> userID]

\* storeMessageTail with a conversation failure returned as an error
storeMessageTailStrict(db, message, correlationID, userID, pid, r) ==
  The({ The({ [db |-> lg.db, err |-> conv.err, used |-> conv.used \cup lg.used]
              : lg \in {LogEvent(conv.db, "info", "message", correlationID, pid, r)} })
        : conv \in {CreateOrUpdateConversation(db, correlationID, userID,
                                               message.Content, r)} })

\* storeMessage after CreateMessage succeeded: the conversation and the log
\* entry, whose failures are only logged
storeMessageTail(db, message, correlationID, userID, pid, r) ==
  The({ The({ [db |-> lg.db, err |-> FALSE, used |-> conv.used \cup lg.used]
              : lg \in {LogEvent(conv.db, "info", "message", correlationID, pid, r)} })
        : conv \in {CreateOrUpdateConversation(db, correlationID, userID,
                                               message.Content, r)} })

\* storeMessage that goes on to the conversation and the log entry when
\* CreateMessage failed
storeMessageNoReturn(db, message, correlationID, pid, r) ==
  The({ The({ The({ [db |-> t.db, err |-> FALSE,
                     used |-> uid.used \cup cm.used \cup t.used]
                    : t \in {storeMessageTail(cm.db, message, correlationID,
                                              uid.id, pid, r)} })
    : cm \in {CreateMessage(db, messageData(message, correlationID, uid.id, pid), r)} })
    : uid \in {GetUserIDByCallsign(message.FromCallsign, r)} })

\* storeMessage; correlationID is the value generateCorrelationID returned
storeMessage(db, message, correlationID, pid, r) ==
  The({ The({
    IF cm.err
    THEN [db |-> db, err |-> TRUE, used |-> uid.used \cup cm.used]
    ELSE The({ [db |-> t.db, err |-> t.err,
                used |-> uid.used \cup cm.used \cup t.used]
               : t \in {storeMessageTail(cm.db, message, correlationID,
                                         uid.id, pid, r)} })
    : cm \in {CreateMessage(db, messageData(message, correlationID, uid.id, pid), r)} })
    : uid \in {GetUserIDByCallsign(message.FromCallsign, r)} })

\* what is left of handleAPRSPacket once the store part is done
NoPending == [kind |-> "none"]

Pending(kind, message) ==
  [kind |-> kind, to |-> message.FromCallsign, id |-> message.MessageID]

\* the value the model keeps of a run of handleAPRSPacket
Handled(db, used, branch, err, pend) ==
  [db |-> db, used |-> used, branch |-> branch, err |-> err, pend |-> pend]

\* handleAuthorized that acknowledges a packet whose message was not stored
handleAuthorizedAckAnyway(db, message, correlationID, pid, r) ==
  The({
    IF message.MessageID # <<>>
      THEN Handled(sm.db, sm.used, IF sm.err THEN "storefail" ELSE "stored",
                   FALSE, Pending("ack", message))
    ELSE IF sm.err
      THEN Handled(sm.db, sm.used, "storefail", TRUE, NoPending)
    ELSE Handled(sm.db, sm.used, "stored", FALSE, NoPending)
    : sm \in {storeMessage(db, message, correlationID, pid, r)} })

\* handleAPRSPacket for an authorized sender
handleAuthorized(db, message, correlationID, pid, r) ==
  The({
    IF sm.err
      THEN Handled(sm.db, sm.used, "storefail", TRUE, NoPending)
    ELSE IF message.MessageID # <<>>
      THEN Handled(sm.db, sm.used, "stored", FALSE, Pending("ack", message))
    ELSE Handled(sm.db, sm.used, "stored", FALSE, NoPending)
    : sm \in {storeMessage(db, message, correlationID, pid, r)} })

\* handleAddressed that does not return on a lookup error and treats the
\* sender as unauthorized
handleAddressedNoReturn(db, message, correlationID, pid, r) ==
  The({
    IF auth.err
      THEN Handled(db, auth.used, "autherr", TRUE, Pending("unauth", message))
    ELSE IF ~auth.res
      THEN Handled(db, auth.used, "unauth", FALSE, Pending("unauth", message))
    ELSE The({ Handled(h.db, auth.used \cup h.used, h.branch, h.err, h.pend)
               : h \in {handleAuthorized(db, message, correlationID, pid, r)} })
    : auth \in {IsAuthorizedMember(message.FromCallsign, r)} })

\* handleAddressed that never acknowledges an unauthorized sender
handleAddressedNoAck(db, message, correlationID, pid, r) ==
  The({
    IF auth.err
      THEN Handled(db, auth.used, "autherr", TRUE, NoPending)
    ELSE IF ~auth.res
      THEN Handled(db, auth.used, "unauth", FALSE,
                   [kind |-> "unauth", to |-> message.FromCallsign, id |-> <<>>])
    ELSE The({ Handled(h.db, auth.used \cup h.used, h.branch, h.err, h.pend)
               : h \in {handleAuthorized(db, message, correlationID, pid, r)} })
    : auth \in {IsAuthorizedMember(message.FromCallsign, r)} })

\* handleAPRSPacket from the authorization lookup on
handleAddressed(db, message, correlationID, pid, r) ==
  The({
    IF auth.err
      THEN Handled(db, auth.used, "autherr", TRUE, NoPending)
    ELSE IF ~auth.res
      THEN Handled(db, auth.used, "unauth", FALSE, Pending("unauth", message))
    ELSE The({ Handled(h.db, auth.used \cup h.used, h.branch, h.err, h.pend)
               : h \in {handleAuthorized(db, message, correlationID, pid, r)} })
    : auth \in {IsAuthorizedMember(message.FromCallsign, r)} })

\* handleAPRSPacket that does not look at the recipient of the message
handleAPRSPacketAnyRecipient(db, rawPacket, correlationID, pid, r) ==
  The({
    IF HasPrefix(rawPacket, <<"#">>)
      THEN Handled(audit.db, audit.used, "comment", FALSE, NoPending)
    ELSE IF message.err
      THEN Handled(audit.db, audit.used, "notmsg", FALSE, NoPending)
    ELSE The({ Handled(h.db, audit.used \cup h.used, h.branch, h.err, h.pend)
               : h \in {handleAddressed(audit.db, message, correlationID, pid, r)} })
    : audit \in {storeRawPacket(db, rawPacket, pid, r)},
      message \in {parseAPRSMessage(rawPacket)} })

\* handleAPRSPacket up to its first use of the socket.  branch names the
\* path taken; pend is the rest of the handler: "ack" (sendACK of the
\* authorized path) or "unauth" (sendACK if the packet has an id, then the
\* unauthorized log entry); err is the returned error when pend is "none".
handleAPRSPacket(db, rawPacket, correlationID, pid, r) ==
  The({
    IF HasPrefix(rawPacket, <<"#">>)
      THEN Handled(audit.db, audit.used, "comment", FALSE, NoPending)
    ELSE IF message.err
      THEN Handled(audit.db, audit.used, "notmsg", FALSE, NoPending)
    ELSE IF ToUpper(message.ToCallsign) # ToUpper(Callsign)
      THEN Handled(audit.db, audit.used, "other", FALSE, NoPending)
    ELSE The({ Handled(h.db, audit.used \cup h.used, h.branch, h.err, h.pend)
               : h \in {handleAddressed(audit.db, message, correlationID, pid, r)} })
    : audit \in {storeRawPacket(db, rawPacket, pid, r)},
      message \in {parseAPRSMessage(rawPacket)} })

\* the line sendACK formats
ackPacket(toCallsign, messageID) ==
  Callsign \o <<">","A","P","R","S",",","T","C","P","I","P","*",":",":">>
    \o toCallsign \o <<":","a","c","k">> \o messageID \o <<"\r","\n">>

\* the login line Connect writes ("user <call> pass <pass> vers RARSMS 1.0
\* filter <filter>"), with passcode and filter abbreviated to one character
loginString ==
  <<"u","s","e","r"," ">> \o Callsign \o <<" ","p","a","s","s"," ","1"," ",
    "v","e","r","s"," ","R","A","R","S","M","S"," ","1",".","0"," ",
    "f","i","l","t","e","r"," ","f","\r","\n">>

\* a beacon without its line ending
statusPacketUnterminated ==
  Callsign \o <<">","A","P","R","S",",","T","C","P","I","P","*",":",":",
                "S","T","A","T","U","S"," ",":","o","n","l","i","n","e">>

\* the status beacon of the heartbeat task, its text abbreviated
statusPacket ==
  Callsign \o <<">","A","P","R","S",",","T","C","P","I","P","*",":",":",
                "S","T","A","T","U","S"," ",":","o","n","l","i","n","e","\r","\n">>

(***************************************************************************)
(* State.                                                                  *)
(***************************************************************************)
VARIABLES
  connected,    \* APRSClient.connected
  conn,         \* APRSClient.conn: 0 is nil, n is the socket of the n-th dial
  sockOpen,     \* the socket conn refers to has not been closed locally
  stopClosed,   \* APRSClient.stopChannel has been closed
  link,         \* the TCP connection of the current socket: "up" or "down"
  mainPc,       \* position of main
  supPc,        \* position of the runService goroutine
  attempt,      \* retryWithBackoff: i
  delay,        \* retryWithBackoff: delay, in seconds
  listenErr,    \* value Listen returned: "none", "nil" or "err"
  hbPc,         \* position of the heartbeat goroutine started for each socket
  ctxDone,      \* the context of main has been cancelled
  panicked,     \* the process died of a panic
  cur,          \* the packet handleAPRSPacket is in the middle of
  db,           \* the Record Store collections the connector writes
  sockOut,      \* the lines written to the sockets, in order
  corrSeq,      \* number of correlation ids generated
  linesLeft,    \* lines the server will still send
  faultsLeft,   \* Record Store requests that may still fail
  ticksLeft,    \* heartbeat ticks that may still fire
  discCalls,    \* Disconnect calls made since the last successful Connect
  results,      \* one record per line handleAPRSPacket returned from
  sndPc,        \* position of the runMessageSender goroutine
  batch,        \* runMessageSender: the jobs of the cycle not yet handled
  pollsLeft,    \* ticks of the dispatcher's ticker that may still fire
  sendLog,      \* one record per job runMessageSender handled
  codecIn,      \* the argument a text function is applied to
  codecOut      \* the value the text function returned

vars ==
  <<connected, conn, sockOpen, stopClosed, link, mainPc, supPc, attempt,
    delay, listenErr, hbPc, ctxDone, panicked, cur, db, sockOut, corrSeq,
    linesLeft, faultsLeft, ticksLeft, discCalls, results,
    sndPc, batch, pollsLeft, sendLog, codecIn, codecOut>>

clientVars == <<connected, conn, sockOpen, stopClosed>>

retryVars == <<attempt, delay>>

inboundVars == <<cur, corrSeq, linesLeft, results>>

outboundVars == <<sndPc, batch, pollsLeft, sendLog>>

codecVars == <<codecIn, codecOut>>

Sockets == 1..MaxSessions

NoPkt == [pid |-> 0]

\* no text function is being applied
NoInput == [fn |-> "none"]

NoOutput == [fn |-> "none"]

\* retryWithBackoff(fn, 5, 5*time.Second, logger) in runService
MaxRetries == 5

InitialDelay == 5

EmptyDb ==
  [packets |-> <<>>, messages |-> <<>>, conversations |-> <<>>,
   logs |-> <<>>, status |-> <<>>]

\* the process is running
Running == ~panicked /\ mainPc # "exited"

\* a write to the current socket succeeds
CanWrite == sockOpen /\ link = "up"

\* the fault plans for every number of failures left
PlanTable == {<<n, FaultPlansUpTo[n]>> : n \in 0..MaxFaults}

\* the fault plans an action may draw
Plans == The({p[2] : p \in {q \in PlanTable : q[1] = faultsLeft}})

\* the fault plans whose failures all hit requests of reqs
PlansOn(reqs) == {q \in Plans : Faulty(q) \subseteq reqs}

\* an action takes the plan r when every failure of r hits a request the
\* action makes; the failures are taken off the budget
Charge(r, used) ==
  /\ Faulty(r) \subseteq used
  /\ faultsLeft' = faultsLeft - Cardinality(Faulty(r))

(***************************************************************************)
(* Initial state: NewAPRSClient has run (stopChannel made, no socket), no  *)
(* goroutine is started yet.  linesLeft and faultsLeft are set by the      *)
(* initial predicate of each specification.  The ticker of the dispatcher  *)
(* runMessageSender fires in the specification SpecOutbound only.          *)
(***************************************************************************)
InitCommon ==
  /\ connected = FALSE /\ conn = 0 /\ sockOpen = FALSE /\ stopClosed = FALSE
  /\ link = "down"
  /\ mainPc = "start" /\ supPc = "idle"
  /\ attempt = 0 /\ delay = InitialDelay
  /\ listenErr = "none"
  /\ hbPc = [t \in Sockets |-> "none"]
  /\ ctxDone = FALSE /\ panicked = FALSE
  /\ cur = NoPkt
  /\ db = EmptyDb
  /\ sockOut = <<>>
  /\ corrSeq = 0
  /\ ticksLeft = MaxBeacons
  /\ discCalls = 0
  /\ results = <<>>
  /\ sndPc = "wait" /\ batch = <<>> /\ pollsLeft = 0 /\ sendLog = <<>>
  /\ codecIn = NoInput /\ codecOut = NoOutput

\* the whole program, started against a Record Store that answers every
\* request; the server sends up to LifeLines lines
Init == InitCommon /\ linesLeft = LifeLines /\ faultsLeft = 0

(***************************************************************************)
(* APRSClient.Disconnect, up to its status write: close(stopChannel)       *)
(* panics when the channel is already closed.                              *)
(***************************************************************************)
\* Disconnect that does not signal the stop channel
DisconnectNoStop ==
  /\ discCalls' = IF discCalls < 3 THEN discCalls + 1 ELSE discCalls
  /\ sockOpen' = FALSE
  /\ connected' = FALSE
  /\ UNCHANGED <<conn, stopClosed, panicked>>

Disconnect ==
  /\ discCalls' = IF discCalls < 3 THEN discCalls + 1 ELSE discCalls
  /\ IF stopClosed
     THEN /\ panicked' = TRUE
          /\ UNCHANGED <<connected, sockOpen, stopClosed>>
     ELSE /\ stopClosed' = TRUE
          /\ sockOpen' = FALSE
          /\ connected' = FALSE
          /\ UNCHANGED panicked
  /\ UNCHANGED conn

(***************************************************************************)
(* main (main.go).                                                         *)
(***************************************************************************)
\* main up to the select: the "starting" status, the client, the goroutines
MainStart ==
  /\ Running /\ mainPc = "start"
  /\ \E r \in Plans :
       LET u == UpdateSystemStatus(db, "starting", "start", r)
       IN  Charge(r, u.used) /\ db' = u.db
  /\ mainPc' = "wait" /\ supPc' = "top"
  /\ UNCHANGED <<outboundVars, codecVars, clientVars, link, retryVars, listenErr, hbPc, ctxDone,
                 panicked, inboundVars, sockOut, ticksLeft, discCalls>>

\* SIGINT or SIGTERM arrives
Signal ==
  /\ Running /\ mainPc = "wait"
  /\ mainPc' = "shutdown"
  /\ UNCHANGED <<outboundVars, codecVars, clientVars, link, supPc, retryVars, listenErr, hbPc, ctxDone,
                 panicked, inboundVars, db, sockOut, faultsLeft, ticksLeft,
                 discCalls>>

\* aprsClient.Disconnect() of the graceful shutdown
MainDisconnect ==
  /\ Running /\ mainPc = "shutdown"
  /\ Disconnect
  /\ mainPc' = IF stopClosed THEN mainPc ELSE "discStatus"
  /\ UNCHANGED <<outboundVars, codecVars, link, supPc, retryVars, listenErr, hbPc, ctxDone,
                 inboundVars, db, sockOut, faultsLeft, ticksLeft>>

\* the status write that ends Disconnect
MainDisconnectStatus ==
  /\ Running /\ mainPc = "discStatus"
  /\ \E r \in Plans :
       LET u == UpdateSystemStatus(db, "offline", "disconnect", r)
       IN  Charge(r, u.used) /\ db' = u.db
  /\ mainPc' = "finalStatus"
  /\ UNCHANGED <<outboundVars, codecVars, clientVars, link, supPc, retryVars, listenErr, hbPc, ctxDone,
                 panicked, inboundVars, sockOut, ticksLeft, discCalls>>

\* the "graceful" status write of main
MainFinalStatus ==
  /\ Running /\ mainPc = "finalStatus"
  /\ \E r \in Plans :
       LET u == UpdateSystemStatus(db, "offline", "shutdown", r)
       IN  Charge(r, u.used) /\ db' = u.db
  /\ mainPc' = "return"
  /\ UNCHANGED <<outboundVars, codecVars, clientVars, link, supPc, retryVars, listenErr, hbPc, ctxDone,
                 panicked, inboundVars, sockOut, ticksLeft, discCalls>>

\* main returns: the deferred cancel() runs
MainReturn ==
  /\ Running /\ mainPc = "return"
  /\ ctxDone' = TRUE
  /\ mainPc' = "cancelled"
  /\ UNCHANGED <<outboundVars, codecVars, clientVars, link, supPc, retryVars, listenErr, hbPc,
                 panicked, inboundVars, db, sockOut, faultsLeft, ticksLeft,
                 discCalls>>

\* the process exits after main has returned; until then the other
\* goroutines keep running
MainExit ==
  /\ Running /\ mainPc = "cancelled"
  /\ mainPc' = "exited"
  /\ UNCHANGED <<outboundVars, codecVars, clientVars, link, supPc, retryVars, listenErr, hbPc,
                 ctxDone, panicked, inboundVars, db, sockOut, faultsLeft, ticksLeft,
                 discCalls>>

(***************************************************************************)
(* APRSClient.Connect (aprs.go) and the supervisor runService (main.go).   *)
(***************************************************************************)
Line(kind, text, pid, task) ==
  [kind |-> kind, conn |-> conn, text |-> text, pid |-> pid, task |-> task]

\* Connect: outcome is "dialfail" (DialTimeout fails), "writefail" (the
\* login write fails, the new socket is closed at once and connected is put
\* back to false) or "ok".  Connect is one step: it starts with every
\* earlier socket closed, and connected is true between the dial and a
\* failing login write only.  The
\* model numbers the sockets whose login was written: a socket closed by
\* Connect is never used again and behaves as the closed socket, or the nil,
\* conn held before.
ConnectLoginFailureKept(outcome, r) ==
  /\ outcome = "ok" => conn < MaxSessions
  /\ IF outcome = "dialfail"
     THEN /\ Charge(r, {})
          /\ UNCHANGED <<connected, conn, sockOpen, link, sockOut, db, discCalls>>
     ELSE IF outcome = "writefail"
     THEN /\ Charge(r, {})
          /\ sockOpen' = FALSE /\ connected' = TRUE
          /\ UNCHANGED <<conn, link, sockOut, db, discCalls>>
     ELSE LET u == UpdateSystemStatus(db, "online", "connect", r)
          IN  /\ Charge(r, u.used)
              /\ conn' = conn + 1 /\ sockOpen' = TRUE /\ connected' = TRUE
              /\ link' = "up"
              /\ sockOut' = Append(sockOut,
                    [kind |-> "login", conn |-> conn + 1, text |-> loginString,
                     pid |-> 0, task |-> 0])
              /\ db' = u.db
              /\ discCalls' = 0

Connect(outcome, r) ==
  /\ outcome = "ok" => conn < MaxSessions
  /\ IF outcome = "dialfail"
     THEN /\ Charge(r, {})
          /\ UNCHANGED <<connected, conn, sockOpen, link, sockOut, db, discCalls>>
     ELSE IF outcome = "writefail"
     THEN /\ Charge(r, {})
          /\ sockOpen' = FALSE /\ connected' = FALSE
          /\ UNCHANGED <<conn, link, sockOut, db, discCalls>>
     ELSE LET u == UpdateSystemStatus(db, "online", "connect", r)
          IN  /\ Charge(r, u.used)
              /\ conn' = conn + 1 /\ sockOpen' = TRUE /\ connected' = TRUE
              /\ link' = "up"
              /\ sockOut' = Append(sockOut,
                    [kind |-> "login", conn |-> conn + 1, text |-> loginString,
                     pid |-> 0, task |-> 0])
              /\ db' = u.db
              /\ discCalls' = 0

\* top of the loop of runService
SupTop ==
  /\ Running /\ supPc = "top"
  /\ IF ctxDone
     THEN supPc' = "returned" /\ UNCHANGED retryVars
     ELSE supPc' = "connect" /\ attempt' = 0 /\ delay' = InitialDelay
  /\ UNCHANGED <<outboundVars, codecVars, clientVars, link, mainPc, listenErr, hbPc, ctxDone, panicked,
                 inboundVars, db, sockOut, faultsLeft, ticksLeft, discCalls>>

\* one iteration of retryWithBackoff: err = fn(), fn being Connect.  When
\* retryWithBackoff returns its locals i and delay are gone: the model keeps
\* their last values until runService has taken its next step, and puts
\* them back to their initial values then.
ConnectAttempt ==
  /\ Running /\ supPc = "connect"
  /\ \E outcome \in {"dialfail", "writefail", "ok"}, r \in Plans :
       /\ Connect(outcome, r)
       /\ supPc' = IF outcome = "ok" THEN "startHB"
                   ELSE IF attempt < MaxRetries - 1 THEN "retrySleep"
                   ELSE "connFailed"
       /\ UNCHANGED retryVars
  /\ UNCHANGED <<outboundVars, codecVars, stopClosed, mainPc, listenErr, hbPc, ctxDone,
                 panicked, inboundVars, ticksLeft>>

\* a retry loop whose delay stays what it was
RetrySleepFixed ==
  /\ Running /\ supPc = "retrySleep"
  /\ attempt' = attempt + 1
  /\ delay' = delay
  /\ supPc' = "connect"
  /\ UNCHANGED <<outboundVars, codecVars, clientVars, link, mainPc, listenErr, hbPc, ctxDone, panicked,
                 inboundVars, db, sockOut, faultsLeft, ticksLeft, discCalls>>

\* time.Sleep(delay); delay *= 2; i++
RetrySleep ==
  /\ Running /\ supPc = "retrySleep"
  /\ attempt' = attempt + 1
  /\ delay' = delay * 2
  /\ supPc' = "connect"
  /\ UNCHANGED <<outboundVars, codecVars, clientVars, link, mainPc, listenErr, hbPc, ctxDone, panicked,
                 inboundVars, db, sockOut, faultsLeft, ticksLeft, discCalls>>

\* retryWithBackoff returned an error: the "error" status
ConnectFailed ==
  /\ Running /\ supPc = "connFailed"
  /\ \E r \in Plans :
       LET u == UpdateSystemStatus(db, "error", "error", r)
       IN  Charge(r, u.used) /\ db' = u.db
  /\ supPc' = "errWait"
  /\ attempt' = 0 /\ delay' = InitialDelay
  /\ UNCHANGED <<outboundVars, codecVars, clientVars, link, mainPc, listenErr, hbPc, ctxDone,
                 panicked, inboundVars, sockOut, ticksLeft, discCalls>>

\* a supervisor that goes on to StartHeartbeat after the wait
ErrWaitThenListen ==
  /\ Running /\ supPc = "errWait"
  /\ supPc' = IF ctxDone THEN "returned" ELSE "startHB"
  /\ UNCHANGED <<outboundVars, codecVars, clientVars, link, mainPc, retryVars, listenErr, hbPc, ctxDone,
                 panicked, inboundVars, db, sockOut, faultsLeft, ticksLeft,
                 discCalls>>

\* select { ctx.Done(): return; time.After(ReconnectDelay): continue }
ErrWait ==
  /\ Running /\ supPc = "errWait"
  /\ supPc' = IF ctxDone THEN "returned" ELSE "top"
  /\ UNCHANGED <<outboundVars, codecVars, clientVars, link, mainPc, retryVars, listenErr, hbPc, ctxDone,
                 panicked, inboundVars, db, sockOut, faultsLeft, ticksLeft,
                 discCalls>>

\* StartHeartbeat() spawns the heartbeat goroutine; Listen() is entered
StartHeartbeat ==
  /\ Running /\ supPc = "startHB"
  /\ hbPc' = [hbPc EXCEPT ![conn] = "select"]
  /\ IF connected
     THEN supPc' = "listen" /\ listenErr' = "none"
     ELSE supPc' = "listenRet" /\ listenErr' = "err"
  /\ attempt' = 0 /\ delay' = InitialDelay
  /\ UNCHANGED <<outboundVars, codecVars, clientVars, link, mainPc, ctxDone, panicked,
                 inboundVars, db, sockOut, faultsLeft, ticksLeft, discCalls>>

(***************************************************************************)
(* APRSClient.Listen and the rest of handleAPRSPacket (aprs.go).           *)
(***************************************************************************)
\* the connection breaks or the server closes it
LinkDown ==
  /\ Running /\ sockOpen /\ link = "up"
  /\ link' = "down"
  /\ UNCHANGED <<outboundVars, codecVars, clientVars, mainPc, supPc, retryVars, listenErr, hbPc, ctxDone,
                 panicked, inboundVars, db, sockOut, faultsLeft, ticksLeft,
                 discCalls>>

\* the record the model keeps of a run of handleAPRSPacket: the line, the
\* path taken, the error returned, the correlation id storeMessage generated
\* (0 if none), the Record Store requests that failed, and whether the
\* client was connected with a writable socket when the run ended
Result(pid, raw, branch, err, corr, failed, writable) ==
  [pid |-> pid, raw |-> raw, branch |-> branch, err |-> err, corr |-> corr,
   failed |-> failed, writable |-> writable]

\* the requests handleAPRSPacket makes for a line when none of them fails.
\* A failure cuts the handler short or turns it to the unauthorized path,
\* so the requests of any run for the line are among these.
RequestsOf(rawPacket) ==
  IF rawPacket = <<>> THEN {}
  ELSE handleAPRSPacket(db, rawPacket, corrSeq + 1, Len(results) + 1, AllOk).used

\* scanner.Scan() returns a line the server sent, one of feed: the stop
\* channel is polled, a blank line is skipped, any other line goes through
\* handleAPRSPacket
ListenOn(feed) ==
  /\ Running /\ supPc = "listen"
  /\ CanWrite /\ linesLeft > 0
  /\ linesLeft' = linesLeft - 1
  /\ \E text \in feed :
       \E line \in {TrimSpace(text)}, pid \in {Len(results) + 1} :
       \E reqs \in {RequestsOf(line)} :
       \E r \in PlansOn(reqs) :
         IF stopClosed
         THEN /\ Charge(r, {})
              /\ supPc' = "listenRet" /\ listenErr' = "nil"
              /\ UNCHANGED <<cur, db, corrSeq, results>>
         ELSE IF line = <<>>
         THEN /\ Charge(r, {})
              /\ UNCHANGED <<supPc, listenErr, cur, db, corrSeq, results>>
         ELSE \E h \in {handleAPRSPacket(db, line, corrSeq + 1, pid, r)} :
              \E corr \in {IF h.branch \in {"stored", "storefail"}
                            THEN corrSeq + 1 ELSE 0} :
                /\ Charge(r, h.used)
                /\ db' = h.db
                /\ corrSeq' = IF corr # 0 THEN corr ELSE corrSeq
                /\ IF h.pend.kind = "none"
                   THEN /\ results' =
                             Append(results,
                               Result(pid, line, h.branch, h.err, corr,
                                      Faulty(r), connected /\ CanWrite))
                        /\ UNCHANGED <<supPc, cur>>
                   ELSE /\ cur' = [pid |-> pid, raw |-> line, branch |-> h.branch,
                                   corr |-> corr, failed |-> Faulty(r),
                                   pend |-> h.pend]
                        /\ supPc' = "ack"
                        /\ UNCHANGED results
                /\ UNCHANGED listenErr
  /\ UNCHANGED <<outboundVars, codecVars, clientVars, link, mainPc, retryVars, hbPc, ctxDone, panicked,
                 sockOut, ticksLeft, discCalls>>

\* Listen in the whole-program specification: the server sends any line
ListenLine == ListenOn(Lines)

\* Listen in the single-session specification: the server sends message lines
ListenMessageLine == ListenOn(MessageLines)

\* Listen when the server sends lines that are no message for the bridge
ListenSkippedLine == ListenOn(SkippedLines)

\* sendACK that writes without a look at the connected flag
sendACKUnguarded(out, toCallsign, messageID, pid) ==
  IF ~CanWrite THEN [err |-> "failed to send ACK", out |-> out]
  ELSE [err |-> "",
        out |-> Append(out, Line("ack", ackPacket(toCallsign, messageID), pid, 0))]

\* sendACK: the returned error ("" is nil) and the lines on the socket after
\* the call
sendACK(out, toCallsign, messageID, pid) ==
  IF ~connected THEN [err |-> "not connected to APRS-IS", out |-> out]
  ELSE IF ~CanWrite THEN [err |-> "failed to send ACK", out |-> out]
  ELSE [err |-> "",
        out |-> Append(out, Line("ack", ackPacket(toCallsign, messageID), pid, 0))]

\* the rest of handleAPRSPacket: the acknowledgement and, for an
\* unauthorized sender, the log entry of the attempt
SendAck ==
  /\ Running /\ supPc = "ack"
  /\ sockOut' = IF cur.pend.id # <<>>
                THEN sendACK(sockOut, cur.pend.to, cur.pend.id, cur.pid).out
                ELSE sockOut
  /\ \E r \in Plans :
       /\ IF cur.pend.kind = "unauth"
          THEN LET lg == LogEvent(db, "warn", "auth", 0, cur.pid, r)
               IN  Charge(r, lg.used) /\ db' = lg.db
          ELSE Charge(r, {}) /\ db' = db
       /\ results' = Append(results,
                        Result(cur.pid, cur.raw, cur.branch, FALSE, cur.corr,
                               cur.failed \cup Faulty(r), connected /\ CanWrite))
  /\ cur' = NoPkt
  /\ supPc' = "listen"
  /\ UNCHANGED <<outboundVars, codecVars, clientVars, link, mainPc, retryVars, listenErr, hbPc, ctxDone,
                 panicked, corrSeq, linesLeft, ticksLeft, discCalls>>

\* scanner.Scan() returns false: the socket was closed locally (an error) or
\* the connection is down (an error, or end of input and a nil return)
ListenEnd ==
  /\ Running /\ supPc = "listen"
  /\ ~CanWrite
  /\ \E e \in {"nil", "err"} :
       /\ ~sockOpen => e = "err"
       /\ listenErr' = e
  /\ supPc' = "listenRet"
  /\ UNCHANGED <<outboundVars, codecVars, clientVars, link, mainPc, retryVars, hbPc, ctxDone, panicked,
                 inboundVars, db, sockOut, faultsLeft, ticksLeft, discCalls>>

\* runService after Listen returned: the log entry of a listener error, then
\* aprsClient.Disconnect()
SupDisconnect ==
  /\ Running /\ supPc = "listenRet"
  /\ \E r \in Plans :
       IF listenErr = "err"
       THEN LET lg == LogEvent(db, "error", "connection", 0, 0, r)
            IN  Charge(r, lg.used) /\ db' = lg.db
       ELSE Charge(r, {}) /\ db' = db
  /\ Disconnect
  /\ supPc' = IF stopClosed THEN supPc ELSE "discStatus"
  /\ UNCHANGED <<outboundVars, codecVars, link, mainPc, retryVars, listenErr, hbPc, ctxDone,
                 inboundVars, sockOut, ticksLeft>>

\* the status write that ends Disconnect, then "if ctx.Err() != nil"
SupDisconnectStatus ==
  /\ Running /\ supPc = "discStatus"
  /\ \E r \in Plans :
       LET u == UpdateSystemStatus(db, "offline", "disconnect", r)
       IN  Charge(r, u.used) /\ db' = u.db
  /\ supPc' = IF ctxDone THEN "returned" ELSE "reconnWait"
  /\ UNCHANGED <<outboundVars, codecVars, clientVars, link, mainPc, retryVars, listenErr, hbPc, ctxDone,
                 panicked, inboundVars, sockOut, ticksLeft, discCalls>>

\* a heartbeat goroutine whose stop channel is closed has not returned yet
StopPending == \E t \in Sockets : hbPc[t] \notin {"none", "exited"} /\ stopClosed

\* select { ctx.Done(): return; time.After(ReconnectDelay): reconnect }.
\* Timing: the delay (seconds) outlasts the return of a heartbeat goroutine
\* whose stop channel was closed before the delay began.
ReconnectWait ==
  /\ Running /\ supPc = "reconnWait"
  /\ ctxDone \/ ~StopPending
  /\ supPc' = IF ctxDone THEN "returned" ELSE "top"
  /\ UNCHANGED <<outboundVars, codecVars, clientVars, link, mainPc, retryVars, listenErr, hbPc, ctxDone,
                 panicked, inboundVars, db, sockOut, faultsLeft, ticksLeft,
                 discCalls>>

(***************************************************************************)
(* The heartbeat goroutine of StartHeartbeat (aprs.go).                    *)
(***************************************************************************)
\* case <-a.stopChannel: return
HeartbeatStop(t) ==
  /\ Running /\ hbPc[t] = "select"
  /\ stopClosed
  /\ hbPc' = [hbPc EXCEPT ![t] = "exited"]
  /\ UNCHANGED <<outboundVars, codecVars, clientVars, link, mainPc, supPc, retryVars, listenErr, ctxDone,
                 panicked, inboundVars, db, sockOut, faultsLeft, ticksLeft,
                 discCalls>>

\* case <-ticker.C with a.connected true.  Timing: the ticker (seconds) is
\* not ready at a select that finds the stop channel closed.
HeartbeatTick(t) ==
  /\ Running /\ hbPc[t] = "select"
  /\ ~stopClosed /\ ticksLeft > 0
  /\ connected
  /\ ticksLeft' = ticksLeft - 1
  /\ hbPc' = [hbPc EXCEPT ![t] = "write"]
  /\ UNCHANGED <<outboundVars, codecVars, clientVars, link, mainPc, supPc, retryVars, listenErr, ctxDone,
                 panicked, inboundVars, db, sockOut, faultsLeft, discCalls>>

\* a.conn.Write(statusPacket)
HeartbeatWrite(t) ==
  /\ Running /\ hbPc[t] = "write"
  /\ sockOut' = IF CanWrite
                THEN Append(sockOut, Line("beacon", statusPacket, 0, t))
                ELSE sockOut
  /\ hbPc' = [hbPc EXCEPT ![t] = "status"]
  /\ UNCHANGED <<outboundVars, codecVars, clientVars, link, mainPc, supPc, retryVars, listenErr, ctxDone,
                 panicked, inboundVars, db, faultsLeft, ticksLeft, discCalls>>

\* UpdateSystemStatus("aprs-connector", "online", last_heartbeat)
HeartbeatStatus(t) ==
  /\ Running /\ hbPc[t] = "status"
  /\ \E r \in Plans :
       LET u == UpdateSystemStatus(db, "online", "heartbeat", r)
       IN  Charge(r, u.used) /\ db' = u.db
  /\ hbPc' = [hbPc EXCEPT ![t] = "select"]
  /\ UNCHANGED <<outboundVars, codecVars, clientVars, link, mainPc, supPc, retryVars, listenErr, ctxDone,
                 panicked, inboundVars, sockOut, ticksLeft, discCalls>>

(***************************************************************************)
(* APRSClient.SendMessage (aprs.go) and the dispatcher runMessageSender    *)
(* (main.go).                                                              *)
(***************************************************************************)
\* truncateForAPRS(sanitizedContent, 67) in runMessageSender
APRSLimit == 67

\* SendMessage: "if len(content) > 67 { content = content[:64] + "..." }"
SendLimit == 67

SendCut == 64

\* time.Now().Unix(): the clock of the model advances by the two seconds
\* runMessageSender sleeps after every job, and by as much for a poll
UnixNow == 2 * Len(sendLog)

\* fmt.Sprintf("%d", n) for n < 100
Decimal(n) ==
  IF n < 10 THEN <<DigitSeq[n + 1]>>
  ELSE <<DigitSeq[(n \div 10) + 1], DigitSeq[(n % 10) + 1]>>

\* a message line that never carries the message id
messagePacketNoId(toCallsign, content, messageID) ==
  Callsign \o <<">","A","P","R","S",",","T","C","P","I","P","*",":",":">>
    \o toCallsign \o <<":">> \o content \o <<"\r","\n">>

\* the line SendMessage formats
messagePacket(toCallsign, content, messageID) ==
  Callsign \o <<">","A","P","R","S",",","T","C","P","I","P","*",":",":">>
    \o toCallsign \o <<":">> \o content
    \o (IF messageID # <<>> THEN <<"{">> \o messageID ELSE <<>>)
    \o <<"\r","\n">>

\* SendMessage: whether an error is returned, the text of the error and
\* the lines on the socket after the call; job and content are bookkeeping
\* of the model
SendMessage(out, toCallsign, content, messageID, job) ==
  The({
    IF ~connected
    THEN [err |-> TRUE, why |-> "not connected to APRS-IS", out |-> out]
    ELSE IF ~CanWrite
    THEN [err |-> TRUE, why |-> "failed to send message", out |-> out]
    ELSE [err |-> FALSE, why |-> "",
          out |-> Append(out,
                    Line("msg", messagePacket(toCallsign, c, messageID), 0, 0)
                      @@ [job |-> job, to |-> toCallsign, content |-> c,
                          id |-> messageID])]
    : c \in {IF Len(content) > SendLimit
              THEN SubSeq(content, 1, SendCut) \o Ellipsis ELSE content} })

\* the record the model keeps of a call of GetPendingMessages
Polled(err, n) == [kind |-> "poll", err |-> err, n |-> n]

\* the record the model keeps of a job runMessageSender handled: whether
\* the content was valid, the content handed to SendMessage and its
\* result, the status and metadata handed to UpdateMessageStatus and the
\* result of that call
Dispatched(job, valid, truncated, sendErr, status, metadata, patchErr) ==
  [kind |-> "job", id |-> job.id, content |-> job.content, valid |-> valid,
   truncated |-> truncated, sendErr |-> sendErr, status |-> status,
   metadata |-> metadata, patchErr |-> patchErr]

\* targetCallsign: metadata["target_callsign"], or from_callsign
TargetOf(job) ==
  IF job.metadata.target_callsign # <<>> THEN job.metadata.target_callsign
  ELSE job.from_callsign

\* the body of the loop over messages that leaves a job alone when
\* SendMessage has failed
HandleJobKeepsPending(job, aprsMessageID, r) ==
  IF ~isValidMessageContent(job.content)
  THEN The({
      [db |-> up.db, out |-> sockOut, used |-> up.used,
       rec |-> Dispatched(job, FALSE, <<>>, FALSE, "failed",
                          Meta(<<>>, "invalid content", <<>>, <<>>, ""),
                          up.err)]
      : up \in {UpdateMessageStatus(db, job.id, "failed",
                   Meta(<<>>, "invalid content", <<>>, <<>>, ""), r)} })
  ELSE The({ The({
      IF snd.err
      THEN [db |-> db, out |-> snd.out, used |-> {},
            rec |-> Dispatched(job, TRUE, truncated, TRUE, "pending",
                               job.metadata, FALSE)]
      ELSE The({ The({
        [db |-> lg.db, out |-> snd.out, used |-> up.used \cup lg.used,
         rec |-> Dispatched(job, TRUE, truncated, FALSE, "delivered",
                            Meta(<<>>, "", aprsMessageID, truncated, "aprs-is"),
                            up.err)]
        : lg \in {LogEvent(up.db, "info", "message", job.correlation_id, 0, r)} })
        : up \in {UpdateMessageStatus(db, job.id, "delivered",
                     Meta(<<>>, "", aprsMessageID, truncated, "aprs-is"), r)} })
    : snd \in {SendMessage(sockOut, TargetOf(job), truncated, aprsMessageID,
                           job.id)} })
    : truncated \in {truncateForAPRS(sanitizeMessageContent(job.content),
                                      APRSLimit).s} })

\* the body of the loop over messages that marks every job failed
HandleJobAlwaysFailed(job, aprsMessageID, r) ==
  The({ The({ The({
      [db |-> up.db, out |-> snd.out, used |-> up.used,
       rec |-> Dispatched(job, TRUE, truncated, snd.err, "failed",
                          Meta(<<>>, "send", aprsMessageID, truncated, ""),
                          up.err)]
      : up \in {UpdateMessageStatus(db, job.id, "failed",
                   Meta(<<>>, "send", aprsMessageID, truncated, ""), r)} })
    : snd \in {SendMessage(sockOut, TargetOf(job), truncated, aprsMessageID,
                           job.id)} })
    : truncated \in {truncateForAPRS(sanitizeMessageContent(job.content),
                                      APRSLimit).s} })

\* the body of the loop over messages for one job: validation, then
\* SendMessage, UpdateMessageStatus and the log entry of a delivery
HandleJob(job, aprsMessageID, r) ==
  IF ~isValidMessageContent(job.content)
  THEN The({
      [db |-> up.db, out |-> sockOut, used |-> up.used,
       rec |-> Dispatched(job, FALSE, <<>>, FALSE, "failed",
                          Meta(<<>>, "invalid content", <<>>, <<>>, ""),
                          up.err)]
      : up \in {UpdateMessageStatus(db, job.id, "failed",
                   Meta(<<>>, "invalid content", <<>>, <<>>, ""), r)} })
  ELSE The({ The({
      IF snd.err
      THEN The({
        [db |-> up.db, out |-> snd.out, used |-> up.used,
         rec |-> Dispatched(job, TRUE, truncated, TRUE, "failed",
                            Meta(<<>>, "send", aprsMessageID, truncated, ""),
                            up.err)]
        : up \in {UpdateMessageStatus(db, job.id, "failed",
                     Meta(<<>>, "send", aprsMessageID, truncated, ""), r)} })
      ELSE The({ The({
        [db |-> lg.db, out |-> snd.out, used |-> up.used \cup lg.used,
         rec |-> Dispatched(job, TRUE, truncated, FALSE, "delivered",
                            Meta(<<>>, "", aprsMessageID, truncated, "aprs-is"),
                            up.err)]
        : lg \in {LogEvent(up.db, "info", "message", job.correlation_id, 0, r)} })
        : up \in {UpdateMessageStatus(db, job.id, "delivered",
                     Meta(<<>>, "", aprsMessageID, truncated, "aprs-is"), r)} })
    : snd \in {SendMessage(sockOut, TargetOf(job), truncated, aprsMessageID,
                           job.id)} })
    : truncated \in {truncateForAPRS(sanitizeMessageContent(job.content),
                                      APRSLimit).s} })

IsConnectedAlways(flag) == TRUE

\* APRSClient.IsConnected on the connected flag of the client
IsConnected(flag) == flag

\* the select of runMessageSender, which main starts after runService.
\* case <-ctx.Done() returns; case
\* <-ticker.C skips the cycle if the client is not connected and else
\* fetches the pending jobs.  With the context cancelled and a tick waiting
\* both cases are ready and select takes either.
SenderTick ==
  /\ Running /\ mainPc # "start" /\ sndPc = "wait"
  /\ \/ /\ ctxDone
        /\ sndPc' = "returned"
        /\ UNCHANGED <<batch, pollsLeft, sendLog, db, faultsLeft>>
     \/ /\ pollsLeft > 0
        /\ pollsLeft' = pollsLeft - 1
        /\ IF ~IsConnected(connected)
           THEN UNCHANGED <<sndPc, batch, sendLog, db, faultsLeft>>
           ELSE \E r \in PlansOn({"pending"}) :
                \E g \in {GetPendingMessages(db, r)} :
                  /\ Charge(r, g.used)
                  /\ sendLog' = Append(sendLog, Polled(g.err, Len(g.items)))
                  /\ batch' = g.items
                  /\ sndPc' = IF g.items = <<>> THEN "wait" ELSE "job"
                  /\ UNCHANGED db
  /\ UNCHANGED <<clientVars, link, mainPc, supPc, retryVars, listenErr, hbPc,
                 ctxDone, panicked, inboundVars, sockOut, ticksLeft, discCalls,
                 codecVars>>

\* one turn of the loop over the messages of the cycle
SenderJob ==
  /\ Running /\ sndPc = "job"
  /\ IF ctxDone
     THEN /\ sndPc' = "returned"
          /\ UNCHANGED <<batch, sendLog, db, sockOut, faultsLeft>>
     ELSE \E aprsMessageID \in {Decimal(UnixNow % 10000)},
             r \in PlansOn({"patch", "log"}) :
          \E h \in {HandleJob(Head(batch), aprsMessageID, r)} :
            /\ Charge(r, h.used)
            /\ db' = h.db
            /\ sockOut' = h.out
            /\ sendLog' = Append(sendLog, h.rec)
            /\ batch' = Tail(batch)
            /\ sndPc' = IF Tail(batch) = <<>> THEN "wait" ELSE "job"
  /\ UNCHANGED <<clientVars, link, mainPc, supPc, retryVars, listenErr, hbPc,
                 ctxDone, panicked, inboundVars, pollsLeft, ticksLeft,
                 discCalls, codecVars>>

(***************************************************************************)
(* The program.                                                            *)
(***************************************************************************)
Next ==
  \/ MainStart \/ Signal \/ MainDisconnect \/ MainDisconnectStatus
  \/ MainFinalStatus \/ MainReturn \/ MainExit
  \/ SupTop \/ ConnectAttempt \/ RetrySleep \/ ConnectFailed \/ ErrWait
  \/ StartHeartbeat \/ LinkDown \/ ListenLine \/ SendAck \/ ListenEnd
  \/ SupDisconnect \/ SupDisconnectStatus \/ ReconnectWait
  \/ \E t \in Sockets :
       HeartbeatStop(t) \/ HeartbeatTick(t) \/ HeartbeatWrite(t) \/ HeartbeatStatus(t)

Spec == Init /\ [][Next]_vars

(***************************************************************************)
(* The retry cycles of the supervisor against a server that cannot always  *)
(* be reached and a Record Store of which up to MaxFaults requests fail:   *)
(* main starts runService, which goes through retryWithBackoff, the error  *)
(* status and the wait, until a Connect succeeds and Listen is entered.    *)
(***************************************************************************)
InitRetry == InitCommon /\ linesLeft = 0 /\ faultsLeft = MaxFaults

NextRetry ==
  \/ MainStart \/ SupTop \/ ConnectAttempt \/ RetrySleep \/ ConnectFailed
  \/ ErrWait \/ StartHeartbeat

SpecRetry == InitRetry /\ [][NextRetry]_vars

(***************************************************************************)
(* One session: the state the program is in when MainStart, a first        *)
(* successful Connect and StartHeartbeat have run, and from there the      *)
(* steps of Listen and handleAPRSPacket together with what can interrupt   *)
(* them: the loss of the connection and the Disconnect of a shutdown.  The *)
(* server sends up to MaxLines message lines and up to MaxFaults requests  *)
(* to the Record Store fail.                                               *)
(***************************************************************************)
InitInbound ==
  /\ connected = TRUE /\ conn = 1 /\ sockOpen = TRUE /\ stopClosed = FALSE
  /\ link = "up"
  /\ mainPc = "wait" /\ supPc = "listen"
  /\ attempt = 0 /\ delay = InitialDelay
  /\ listenErr = "none"
  /\ hbPc = [t \in Sockets |-> IF t = 1 THEN "select" ELSE "none"]
  /\ ctxDone = FALSE /\ panicked = FALSE
  /\ cur = NoPkt
  /\ db = [EmptyDb EXCEPT !.status =
            <<[service |-> "aprs-connector", status |-> "online",
               meta |-> "connect"]>>]
  /\ sockOut = <<[kind |-> "login", conn |-> 1, text |-> loginString,
                  pid |-> 0, task |-> 0]>>
  /\ corrSeq = 0
  /\ linesLeft = MaxLines
  /\ faultsLeft = MaxFaults
  /\ ticksLeft = 0
  /\ discCalls = 0
  /\ results = <<>>
  /\ sndPc = "wait" /\ batch = <<>> /\ pollsLeft = 0 /\ sendLog = <<>>
  /\ codecIn = NoInput /\ codecOut = NoOutput

NextInbound ==
  \/ ListenMessageLine \/ SendAck \/ LinkDown \/ ListenEnd
  \/ Signal \/ MainDisconnect

SpecInbound == InitInbound /\ [][NextInbound]_vars

\* the same session when the server sends only lines that are no message
\* for the bridge: comments, other packets, blank lines, messages to others
NextSkipped ==
  \/ ListenSkippedLine \/ LinkDown \/ ListenEnd
  \/ Signal \/ MainDisconnect

SpecSkipped == InitInbound /\ [][NextSkipped]_vars

(***************************************************************************)
(* The dispatcher in one session: the state the program is in when a first *)
(* Connect has succeeded, with up to MaxJobs pending jobs other services   *)
(* put in the Record Store.  The ticker of runMessageSender fires up to    *)
(* MaxPolls times, up to MaxFaults requests to the Record Store fail, the  *)
(* connection can break and a shutdown can disconnect the client.          *)
(***************************************************************************)
InitOutbound ==
  /\ connected = TRUE /\ conn = 1 /\ sockOpen = TRUE /\ stopClosed = FALSE
  /\ link = "up"
  /\ mainPc = "wait" /\ supPc = "listen"
  /\ attempt = 0 /\ delay = InitialDelay
  /\ listenErr = "none"
  /\ hbPc = [t \in Sockets |-> IF t = 1 THEN "select" ELSE "none"]
  /\ ctxDone = FALSE /\ panicked = FALSE
  /\ cur = NoPkt
  /\ \E jobs \in JobLists :
       db = [EmptyDb EXCEPT
               !.status = <<[service |-> "aprs-connector", status |-> "online",
                             meta |-> "connect"]>>,
               !.messages = jobs]
  /\ sockOut = <<[kind |-> "login", conn |-> 1, text |-> loginString,
                  pid |-> 0, task |-> 0]>>
  /\ corrSeq = 0
  /\ linesLeft = 0
  /\ faultsLeft = MaxFaults
  /\ ticksLeft = 0
  /\ discCalls = 0
  /\ results = <<>>
  /\ sndPc = "wait" /\ batch = <<>> /\ pollsLeft = MaxPolls /\ sendLog = <<>>
  /\ codecIn = NoInput /\ codecOut = NoOutput

NextOutbound ==
  \/ SenderTick \/ SenderJob
  \/ LinkDown \/ Signal \/ MainDisconnect

SpecOutbound == InitOutbound /\ [][NextOutbound]_vars

(***************************************************************************)
(* The bridge: the whole program with its three goroutines, runService,    *)
(* the heartbeat of each socket and runMessageSender, from the start of    *)
(* main to the end of the process.  The Record Store answers every request *)
(* and holds one pending job for APRS; the server sends up to LifeLines    *)
(* lines and the ticker of runMessageSender fires up to MaxPolls times.    *)
(***************************************************************************)
InitBridge ==
  /\ connected = FALSE /\ conn = 0 /\ sockOpen = FALSE /\ stopClosed = FALSE
  /\ link = "down"
  /\ mainPc = "start" /\ supPc = "idle"
  /\ attempt = 0 /\ delay = InitialDelay
  /\ listenErr = "none"
  /\ hbPc = [t \in Sockets |-> "none"]
  /\ ctxDone = FALSE /\ panicked = FALSE
  /\ cur = NoPkt
  /\ db = [EmptyDb EXCEPT !.messages = <<Job(1, ContentLines)>>]
  /\ sockOut = <<>>
  /\ corrSeq = 0
  /\ linesLeft = LifeLines
  /\ faultsLeft = 0
  /\ ticksLeft = MaxBeacons
  /\ discCalls = 0
  /\ results = <<>>
  /\ sndPc = "wait" /\ batch = <<>> /\ pollsLeft = MaxPolls /\ sendLog = <<>>
  /\ codecIn = NoInput /\ codecOut = NoOutput

NextBridge == Next \/ SenderTick \/ SenderJob

SpecBridge == InitBridge /\ [][NextBridge]_vars

(***************************************************************************)
(* The text functions on their own: truncateForAPRS,                       *)
(* sanitizeMessageContent and parseAPRSMessage are applied to one          *)
(* argument drawn from the texts below; nothing else runs.                 *)
(***************************************************************************)
\* the texts of up to n characters over an alphabet
Texts(alphabet, n) == UNION {[1..k -> alphabet] : k \in 0..n}

\* truncateForAPRS(content, maxLength): maxLength is an int, taken from 0 on
TruncateInputs ==
  {[fn |-> "truncate", text |-> t, limit |-> l]
     : t \in Texts({"a", "."}, MaxText), l \in 0..MaxLimit}

\* a letter, the space, the tab, both line endings and the form feed
SanitizeChars == {"a", " ", "\t", "\n", "\r", "\f"}

SanitizeInputs ==
  {[fn |-> "sanitize", text |-> t] : t \in Texts(SanitizeChars, MaxText - 1)}

Spaces(n) == [i \in 1..n |-> " "]

\* the message line FROM>PATH::TO   :content{id
ParseLine(from, path, to, pad, content, id) ==
  from \o <<">">> \o path \o <<":", ":">> \o to \o Spaces(pad) \o <<":">>
    \o content \o (IF id = <<>> THEN <<>> ELSE <<"{">> \o id)

\* message lines from a sender in upper and in lower case, over a path with
\* and without a comma, to the connector's callsign in upper and in lower
\* case, with a content that has spaces around it or "::" inside, with and
\* without a message id
ParseInputs ==
  {[fn |-> "parse", from |-> f, path |-> p, to |-> t, content |-> c,
    id |-> d, text |-> ParseLine(f, p, t, n, c, d)]
     : f \in {<<"A","1">>, <<"a","1">>},
       p \in {<<"A","P","R","S",",","T","C","P","I","P","*">>,
              <<"A","P","R","S">>},
       t \in {Callsign, <<"r","s">>},
       n \in 0..MaxPad,
       c \in {<<"h","i">>, <<" ","h"," ","i"," ">>, <<"a",":",":","b">>},
       d \in {<<>>, <<"0","0","1">>, <<"a","Z">>}}

\* lines handleAPRSPacket is called with, most of them without "::": the
\* short texts over a letter and the separators of a message line, the
\* lines of the server, and message lines whose "::" is a single colon, is
\* missing, or has a space inside.  Listen hands over no empty line.  The
\* audit write of the handler succeeds or fails.
HandleInputs ==
  {[fn |-> "handle", text |-> t, audit |-> o]
     : t \in ((Texts({"A", ">", ",", ":"}, MaxText - 1) \cup Lines
               \cup {<<"A","1",">","X",",","Y">> \o sep
                       \o <<"R","S"," ",":","h","i","{","1">>
                     : sep \in {<<":">>, <<>>, <<":"," ",":">>, <<":",":">>}})
              \ {<<>>}),
       o \in {"ok", "neterr"}}

\* SendMessage(toCallsign, content, messageID) followed by
\* parseAPRSMessage: recipients in upper case, in lower case and with an
\* SSID, contents of letters, spaces, braces and colons, message ids none,
\* digits, letters and one with a hyphen
RoundTripInputs ==
  {[fn |-> "roundtrip", to |-> t, content |-> c, id |-> d]
     : t \in {<<"A","1">>, <<"a","1">>, <<"W","-","9">>},
       c \in Texts({"a", " ", "{", ":"}, MaxText - 2),
       d \in {<<>>, <<"4","2">>, <<"a","Z">>, <<"4","-">>}}

\* no goroutine of the program runs while a text function is applied
programVars ==
  <<clientVars, link, mainPc, supPc, retryVars, listenErr, hbPc, ctxDone,
    panicked, inboundVars, db, sockOut, faultsLeft, ticksLeft, discCalls,
    outboundVars>>

ApplyTruncate ==
  /\ codecIn.fn = "truncate" /\ codecOut.fn = "none"
  /\ codecOut' = [fn |-> "truncate",
                  r |-> truncateForAPRS(codecIn.text, codecIn.limit)]
  /\ UNCHANGED <<codecIn, programVars>>

ApplySanitize ==
  /\ codecIn.fn = "sanitize" /\ codecOut.fn = "none"
  /\ codecOut' = [fn |-> "sanitize",
                  r |-> sanitizeMessageContent(codecIn.text)]
  /\ UNCHANGED <<codecIn, programVars>>

ApplyParse ==
  /\ codecIn.fn = "parse" /\ codecOut.fn = "none"
  /\ codecOut' = [fn |-> "parse", r |-> parseAPRSMessage(codecIn.text)]
  /\ UNCHANGED <<codecIn, programVars>>

\* handleAPRSPacket on an empty Record Store, with parseAPRSMessage on the
\* same line
ApplyHandle ==
  /\ codecIn.fn = "handle" /\ codecOut.fn = "none"
  /\ codecOut' = [fn |-> "handle",
                  parse |-> parseAPRSMessage(codecIn.text),
                  r |-> handleAPRSPacket(EmptyDb, codecIn.text, 1, 1,
                          [AllOk EXCEPT !["audit"] = codecIn.audit])]
  /\ UNCHANGED <<codecIn, programVars>>

\* the line SendMessage writes, as Listen hands it on without its line
\* terminator, parsed by parseAPRSMessage
ApplyRoundTrip ==
  /\ codecIn.fn = "roundtrip" /\ codecOut.fn = "none"
  /\ \E packet \in {messagePacket(codecIn.to, codecIn.content, codecIn.id)} :
     \E line \in {SubSeq(packet, 1, Len(packet) - 2)} :
       codecOut' = [fn |-> "roundtrip", line |-> line,
                    r |-> parseAPRSMessage(line)]
  /\ UNCHANGED <<codecIn, programVars>>

InitCodec ==
  /\ connected = FALSE /\ conn = 0 /\ sockOpen = FALSE /\ stopClosed = FALSE
  /\ link = "down"
  /\ mainPc = "start" /\ supPc = "idle"
  /\ attempt = 0 /\ delay = InitialDelay
  /\ listenErr = "none"
  /\ hbPc = [t \in Sockets |-> "none"]
  /\ ctxDone = FALSE /\ panicked = FALSE
  /\ cur = NoPkt
  /\ db = EmptyDb
  /\ sockOut = <<>>
  /\ corrSeq = 0
  /\ linesLeft = 0 /\ faultsLeft = 0 /\ ticksLeft = 0
  /\ discCalls = 0
  /\ results = <<>>
  /\ sndPc = "wait" /\ batch = <<>> /\ pollsLeft = 0 /\ sendLog = <<>>
  /\ codecIn \in TruncateInputs \cup SanitizeInputs \cup ParseInputs
                  \cup HandleInputs \cup RoundTripInputs
  /\ codecOut = NoOutput

NextCodec ==
  \/ ApplyTruncate \/ ApplySanitize \/ ApplyParse \/ ApplyHandle
  \/ ApplyRoundTrip

SpecCodec == InitCodec /\ [][NextCodec]_vars

(***************************************************************************)
(* The Record Store client on its own: one call of a function of           *)
(* database.go is made, on a store that is empty or holds a status record, *)
(* a conversation and a pending job, and the store answers each request of *)
(* the call with 200, with a 404 or 5xx status, or not at all; nothing     *)
(* else runs.                                                              *)
(***************************************************************************)
StoreOutcomes == {"ok", "neterr", "http5xx", "http404"}

\* the answers of the store to the requests of one call: at most two
\* requests are not answered with 200
StorePlans ==
  {[q \in Requests |-> IF q = q1 THEN o1 ELSE IF q = q2 THEN o2 ELSE "ok"]
     : q1 \in Requests, q2 \in Requests, o1 \in StoreOutcomes, o2 \in StoreOutcomes}

\* the plans whose failures hit requests of reqs only
StorePlansOn(reqs) == {r \in StorePlans : Faulty(r) \subseteq reqs}

StoreDbs ==
  {EmptyDb,
   [EmptyDb EXCEPT
      !.status = <<[service |-> "aprs-connector", status |-> "online",
                    meta |-> "connect"]>>,
      !.conversations = <<[correlation_id |-> 1, subject |-> <<"h","i">>,
                           initiated_by |-> "u1", message_count |-> 1]>>,
      !.messages = <<Job(1, ContentLines)>>]}

StoreCallsigns == {<<"A","1">>, <<"a","1">>, <<"B","2">>, <<"C","3">>}

\* the calls: the function, its arguments and the answers of the store
StoreCalls ==
  {[fn |-> "IsAuthorizedMember", callsign |-> c, r |-> r]
     : c \in StoreCallsigns, r \in StorePlansOn({"member", "user"})}
  \cup {[fn |-> "GetUserIDByCallsign", callsign |-> c, r |-> r]
     : c \in StoreCallsigns, r \in StorePlansOn({"uid"})}
  \cup {[fn |-> f, db |-> d, r |-> r]
     : f \in {"CreateMessage"}, d \in StoreDbs, r \in StorePlansOn({"msg"})}
  \cup {[fn |-> f, db |-> d, r |-> r]
     : f \in {"CreateAPRSPacket"}, d \in StoreDbs, r \in StorePlansOn({"audit"})}
  \cup {[fn |-> f, db |-> d, r |-> r]
     : f \in {"LogEvent"}, d \in StoreDbs, r \in StorePlansOn({"log"})}
  \cup {[fn |-> f, db |-> d, r |-> r]
     : f \in {"UpdateSystemStatus"}, d \in StoreDbs,
       r \in StorePlansOn({"statGet", "statPut"})}
  \cup {[fn |-> f, db |-> d, r |-> r]
     : f \in {"CreateOrUpdateConversation"}, d \in StoreDbs,
       r \in StorePlansOn({"convGet", "convPut"})}
  \cup {[fn |-> f, db |-> d, r |-> r]
     : f \in {"GetPendingMessages"}, d \in StoreDbs, r \in StorePlansOn({"pending"})}
  \cup {[fn |-> f, db |-> d, r |-> r]
     : f \in {"UpdateMessageStatus"}, d \in StoreDbs, r \in StorePlansOn({"patch"})}

StoreFunctions == {c.fn : c \in StoreCalls}

\* the call is made
ApplyStoreCall ==
  /\ codecIn.fn \in StoreFunctions /\ codecOut.fn = "none"
  /\ codecOut' =
       [fn |-> codecIn.fn,
        r |-> CASE codecIn.fn = "IsAuthorizedMember" ->
                     IsAuthorizedMember(codecIn.callsign, codecIn.r)
                [] codecIn.fn = "GetUserIDByCallsign" ->
                     GetUserIDByCallsign(codecIn.callsign, codecIn.r)
                [] codecIn.fn = "CreateMessage" ->
                     CreateMessage(codecIn.db, [pid |-> 1, status |-> "pending"],
                                   codecIn.r)
                [] codecIn.fn = "CreateAPRSPacket" ->
                     CreateAPRSPacket(codecIn.db, [pid |-> 1], codecIn.r)
                [] codecIn.fn = "LogEvent" ->
                     LogEvent(codecIn.db, "info", "message", 1, 0, codecIn.r)
                [] codecIn.fn = "UpdateSystemStatus" ->
                     UpdateSystemStatus(codecIn.db, "offline", "disconnect",
                                        codecIn.r)
                [] codecIn.fn = "CreateOrUpdateConversation" ->
                     CreateOrUpdateConversation(codecIn.db, 1, "u1", <<"y","o">>,
                                                codecIn.r)
                [] codecIn.fn = "GetPendingMessages" ->
                     GetPendingMessages(codecIn.db, codecIn.r)
                [] codecIn.fn = "UpdateMessageStatus" ->
                     UpdateMessageStatus(codecIn.db, 1, "failed",
                                         Meta(<<>>, "send", <<>>, <<>>, ""),
                                         codecIn.r)]
  /\ UNCHANGED <<codecIn, programVars>>

InitStore ==
  /\ connected = FALSE /\ conn = 0 /\ sockOpen = FALSE /\ stopClosed = FALSE
  /\ link = "down"
  /\ mainPc = "start" /\ supPc = "idle"
  /\ attempt = 0 /\ delay = InitialDelay
  /\ listenErr = "none"
  /\ hbPc = [t \in Sockets |-> "none"]
  /\ ctxDone = FALSE /\ panicked = FALSE
  /\ cur = NoPkt
  /\ db = EmptyDb
  /\ sockOut = <<>>
  /\ corrSeq = 0
  /\ linesLeft = 0 /\ faultsLeft = 0 /\ ticksLeft = 0
  /\ discCalls = 0
  /\ results = <<>>
  /\ sndPc = "wait" /\ batch = <<>> /\ pollsLeft = 0 /\ sendLog = <<>>
  /\ codecIn \in StoreCalls
  /\ codecOut = NoOutput

NextStore == ApplyStoreCall

SpecStore == InitStore /\ [][NextStore]_vars


(***************************************************************************)
(* Properties of the session life cycle, checked under Spec.               *)
(***************************************************************************)
\* heartbeat goroutines that were started and have not returned
Alive == {t \in Sockets : hbPc[t] \notin {"none", "exited"}}

\* C1: Disconnect is idempotent: once it has been called, and however often
\* it is called again before the next Connect, the process has not panicked
\* and the client is not connected.
C1_DisconnectIdempotent ==
  discCalls >= 1 => (~panicked /\ ~connected)

\* C2: transport errors are never fatal: as long as no shutdown signal has
\* been taken (main is still before or at its select), the process has not
\* crashed, whatever connection losses runService went through.
C2_TransportErrorsNotFatal ==
  mainPc \in {"start", "wait"} => ~panicked

\* C3: in every session Listen keeps reading until the connection fails or
\* a shutdown is requested: when Listen has returned and no shutdown signal
\* was taken, the session's connection is not healthy.
C3_ListenReturnsOnlyOnLoss ==
  (supPc = "listenRet" /\ mainPc = "wait") => ~(sockOpen /\ link = "up")

\* C4: in every session the heartbeat task stays alive while the session is
\* connected: whenever no shutdown signal was taken and runService is inside
\* Listen on a connected client, the heartbeat goroutine started for the
\* current socket has not returned.
C4_HeartbeatAliveWhileConnected ==
  (mainPc = "wait" /\ connected /\ supPc \in {"listen", "ack"}) =>
    hbPc[conn] \in {"select", "write", "status"}

Returned == {results[i] : i \in DOMAIN results}

\* the packet came from a sender IsAuthorizedMember reported authorized
Accepted(x) == x.branch \in {"stored", "storefail"}

\* parseAPRSMessage of every line the server can send, as Listen hands it
\* to handleAPRSPacket
ParsedLines == {<<TrimSpace(t), parseAPRSMessage(TrimSpace(t))>> : t \in Lines}

\* the parsed message of a packet
ParsedOf(x) == The({p[2] : p \in {q \in ParsedLines : q[1] = x.raw}})

\* the message-id the line carries (empty if none)
MessageIDOf(x) == ParsedOf(x).MessageID

MessagesOf(x) == {j \in DOMAIN db.messages : db.messages[j].pid = x.pid}

ConversationsOf(x) ==
  {j \in DOMAIN db.conversations : db.conversations[j].correlation_id = x.corr}

AcksOf(x) ==
  {j \in DOMAIN sockOut : sockOut[j].kind = "ack" /\ sockOut[j].pid = x.pid}

AuthLogsOf(x) ==
  {j \in DOMAIN db.logs :
     /\ db.logs[j].pid = x.pid
     /\ db.logs[j].event_type = "auth" /\ db.logs[j].level = "warn"}

\* the stored message of a packet carries the sender, the content and the
\* correlation id of that packet, and its acknowledgement is the ack line
\* addressed to the sender with the packet's message-id
MessageMatches(x) ==
  \A j \in MessagesOf(x) :
    /\ db.messages[j].from_callsign = ParsedOf(x).FromCallsign
    /\ db.messages[j].content = ParsedOf(x).Content
    /\ db.messages[j].correlation_id = x.corr
    /\ x.corr > 0

AckMatches(x) ==
  \A j \in AcksOf(x) :
    sockOut[j].text =
      ackPacket(ParsedOf(x).FromCallsign, MessageIDOf(x))

\* every conversation in the store carries the correlation id of a packet
\* from an authorized sender (returned, or still in handleAPRSPacket)
ConversationsBelong ==
  \A j \in DOMAIN db.conversations :
    \/ \E y \in Returned :
         Accepted(y) /\ y.corr = db.conversations[j].correlation_id
    \/ /\ cur.pid # 0 /\ Accepted(cur)
       /\ cur.corr = db.conversations[j].correlation_id

\* C6 as stated: every accepted inbound message has exactly one message
\* entity and exactly one conversation entity with the same correlation id,
\* whatever the Record Store answered.
C6_ExactlyOneMessageAndConversation ==
  \A x \in Returned :
    Accepted(x) =>
      /\ Cardinality(MessagesOf(x)) = 1
      /\ Cardinality(ConversationsOf(x)) = 1
      /\ \A j \in MessagesOf(x) : db.messages[j].correlation_id = x.corr

\* C6 amended: every accepted inbound message gets a correlation id of its
\* own, at most one message entity and at most one conversation entity, both
\* with that correlation id, and a conversation only beside a message; the
\* message entity exists exactly when CreateMessage succeeded, and exactly
\* one conversation exists when CreateMessage and the conversation requests
\* succeeded.
C6_OneMessageAndConversationWhenStored ==
  \A x \in Returned :
    Accepted(x) =>
      /\ x.corr > 0
      /\ \A y \in Returned : y # x => y.corr # x.corr
      /\ Cardinality(MessagesOf(x)) <= 1
      /\ Cardinality(ConversationsOf(x)) <= 1
      /\ \A j \in MessagesOf(x) : db.messages[j].correlation_id = x.corr
      /\ ConversationsOf(x) # {} => MessagesOf(x) # {}
      /\ ("msg" \notin x.failed) <=> (MessagesOf(x) # {})
      /\ (x.failed \cap {"msg", "convGet", "convPut"} = {}) =>
           Cardinality(ConversationsOf(x)) = 1

\* an accepted message was stored with its message and its conversation,
\* and another accepted one has its message and no conversation
C6_StoredWithAndWithoutConversation ==
  /\ \E x \in Returned :
       /\ Accepted(x) /\ x.failed = {}
       /\ Cardinality(MessagesOf(x)) = 1 /\ Cardinality(ConversationsOf(x)) = 1
  /\ \E x \in Returned :
       /\ Accepted(x) /\ "convPut" \in x.failed
       /\ Cardinality(MessagesOf(x)) = 1 /\ ConversationsOf(x) = {}

\* C7 as stated (Scenario A): a message line for the bridge from an
\* authorized sender that carries a message-id yields exactly one message
\* (sender, content, correlation id) and exactly one ack line to the sender
\* with that message-id.
C7_ScenarioA ==
  \A x \in Returned :
    (Accepted(x) /\ MessageIDOf(x) # <<>>) =>
      /\ Cardinality(MessagesOf(x)) = 1 /\ MessageMatches(x)
      /\ Cardinality(AcksOf(x)) = 1 /\ AckMatches(x)

\* C7 amended: for such a line there is at most one message and at most one
\* ack, the message carries the sender, the parsed content and the
\* correlation id, the ack is addressed to the sender with the message-id,
\* and an ack is on the wire only if the message is persisted; the message
\* is persisted when CreateMessage succeeded, and the ack is sent when,
\* besides, the client was still connected and the socket write succeeded.
C7_ScenarioAWhenStoredAndConnected ==
  \A x \in Returned :
    (Accepted(x) /\ MessageIDOf(x) # <<>>) =>
      /\ Cardinality(MessagesOf(x)) <= 1 /\ MessageMatches(x)
      /\ Cardinality(AcksOf(x)) <= 1 /\ AckMatches(x)
      /\ AcksOf(x) # {} => MessagesOf(x) # {}
      /\ "msg" \notin x.failed => Cardinality(MessagesOf(x)) = 1
      /\ ("msg" \notin x.failed /\ x.writable) => Cardinality(AcksOf(x)) = 1

\* the line "A1>X,Y::RS :hi{1" of the member A1 was stored and acknowledged
C7_MemberLineStoredAndAcked ==
  \E x \in Returned :
    /\ x.raw = LineMemberId /\ x.branch = "stored"
    /\ \E j \in MessagesOf(x) :
         /\ db.messages[j].from_callsign = <<"A", "1">>
         /\ db.messages[j].content = <<"h", "i">>
         /\ db.messages[j].correlation_id = 1
    /\ \E j \in AcksOf(x) :
         sockOut[j].text =
           <<"R","S",">","A","P","R","S",",","T","C","P","I","P","*",":",":",
             "A","1",":","a","c","k","1","\r","\n">>

\* C8 as stated (Scenario B): a message line for the bridge from a sender
\* who is not authorized persists no message and no conversation, writes
\* exactly one log entry of the unauthorized attempt, is acknowledged, and
\* handleAPRSPacket returns no error.
C8_ScenarioB ==
  \A x \in Returned :
    x.branch = "unauth" =>
      /\ MessagesOf(x) = {} /\ x.corr = 0 /\ ConversationsBelong
      /\ Cardinality(AuthLogsOf(x)) = 1
      /\ Cardinality(AcksOf(x)) = 1 /\ AckMatches(x)
      /\ ~x.err

\* C8 amended: such a line persists no message and no conversation and
\* handleAPRSPacket returns no error; exactly one log entry of the attempt is
\* written unless the LogEvent request fails (then none); exactly one ack is
\* sent when the line carries a message-id and the client is connected with
\* a writable socket, and none otherwise.
C8_ScenarioBAckIfIdLogIfStoreUp ==
  \A x \in Returned :
    x.branch = "unauth" =>
      /\ MessagesOf(x) = {} /\ x.corr = 0 /\ ConversationsBelong
      /\ Cardinality(AuthLogsOf(x)) = (IF "log" \in x.failed THEN 0 ELSE 1)
      /\ Cardinality(AcksOf(x)) =
           (IF MessageIDOf(x) # <<>> /\ x.writable THEN 1 ELSE 0)
      /\ AckMatches(x)
      /\ ~x.err

\* the line "B2>X,Y::RS :hi{7" of B2, who is no member, was acknowledged and
\* logged, and the same line without a message-id was logged only
C8_GuestLinesHandled ==
  /\ \E x \in Returned :
       /\ x.raw = LineGuestId /\ x.branch = "unauth"
       /\ \E j \in AcksOf(x) :
            sockOut[j].text =
              <<"R","S",">","A","P","R","S",",","T","C","P","I","P","*",":",":",
                "B","2",":","a","c","k","7","\r","\n">>
       /\ Cardinality(AuthLogsOf(x)) = 1
  /\ \E x \in Returned :
       /\ x.raw = LineGuestNoId /\ x.branch = "unauth"
       /\ AcksOf(x) = {} /\ Cardinality(AuthLogsOf(x)) = 1

\* C9: an authorization-lookup error aborts only the current packet: the
\* step in which handleAPRSPacket returns from a lookup error returns the
\* error, leaves the messages, conversations, log entries and the socket
\* output as they were, generates no correlation id, and leaves the client
\* connected and Listen at its loop, ready for the next line.
C9_AuthErrorAbortsOnlyPacket ==
  [][ ( /\ Len(results') = Len(results) + 1
        /\ results'[Len(results')].branch = "autherr" )
      => ( /\ results'[Len(results')].err
           /\ db'.messages = db.messages
           /\ db'.conversations = db.conversations
           /\ db'.logs = db.logs
           /\ sockOut' = sockOut
           /\ corrSeq' = corrSeq
           /\ cur' = NoPkt
           /\ supPc' = "listen" /\ listenErr' = "none"
           /\ connected' /\ clientVars' = clientVars ) ]_vars

\* a line whose lookup failed was dropped and the next line, from the member,
\* was stored and acknowledged
C9_NextLineHandledAfterAuthError ==
  /\ Len(results) >= 2
  /\ results[1].branch = "autherr" /\ results[1].err
  /\ results[1].failed \cap {"member", "user"} # {}
  /\ results[2].branch = "stored" /\ AcksOf(results[2]) # {}
  /\ MessagesOf(results[1]) = {} /\ AcksOf(results[1]) = {}

\* C10 as stated: for a packet with a message-id from an authorized sender,
\* received on a connected client, the acknowledgement is sent and
\* handleAPRSPacket returns no error whichever Record Store write failed.
C10_PersistenceErrorsNeverAbort ==
  \A x \in Returned :
    (Accepted(x) /\ MessageIDOf(x) # <<>> /\ x.writable) =>
      (AcksOf(x) # {} /\ ~x.err)

\* C10 amended: for such a packet a failure to write the audit record, the
\* conversation or the log entry (or to look up the user id) does not abort
\* acceptance: the ack is sent and no error is returned; a failure to write
\* the message entity aborts it: nothing is stored or acknowledged and the
\* error is returned.
C10_OnlyMessageWriteAborts ==
  \A x \in Returned :
    (Accepted(x) /\ MessageIDOf(x) # <<>> /\ x.writable) =>
      IF "msg" \in x.failed
      THEN x.err /\ x.branch = "storefail" /\ AcksOf(x) = {} /\ MessagesOf(x) = {}
      ELSE ~x.err /\ x.branch = "stored" /\ Cardinality(AcksOf(x)) = 1

\* a packet was acknowledged although a Record Store write other than the
\* message's failed while it was handled
C10_AckedDespiteFailedWrite ==
  \E x \in Returned :
    /\ Accepted(x) /\ MessageIDOf(x) # <<>>
    /\ x.failed \cap {"audit", "convGet", "convPut", "log"} # {}
    /\ ~x.err /\ AcksOf(x) # {}

(***************************************************************************)
(* Lines the inbound pipeline drops.                                       *)
(***************************************************************************)
\* the audit records and the log entries written for a packet
PacketsOf(x) == {j \in DOMAIN db.packets : db.packets[j].pid = x.pid}

LogsOf(x) == {j \in DOMAIN db.logs : db.logs[j].pid = x.pid}

\* the line parses as a message whose recipient is not the bridge
ForOther(x) ==
  /\ ~HasPrefix(x.raw, <<"#">>)
  /\ ~ParsedOf(x).err
  /\ ToUpper(ParsedOf(x).ToCallsign) # ToUpper(Callsign)

\* C11: a parsed message whose recipient differs, case-insensitively, from
\* the bridge's callsign is dropped after the audit write: the only request
\* made (and so the only one that can fail) is the audit write, no message,
\* conversation or log entry is written, no ack is sent and no error is
\* returned.
C11_OtherRecipientDropped ==
  \A x \in Returned :
    ForOther(x) =>
      /\ x.branch = "other" /\ ~x.err
      /\ x.failed \subseteq {"audit"}
      /\ Cardinality(PacketsOf(x)) = (IF "audit" \in x.failed THEN 0 ELSE 1)
      /\ MessagesOf(x) = {} /\ x.corr = 0 /\ ConversationsBelong
      /\ LogsOf(x) = {}
      /\ AcksOf(x) = {}

\* the line "A1>X,Y::ZZ :hi{1" of the member A1 to ZZ was audited and
\* dropped, and a line for the bridge was stored after it
C11_LineForOtherDropped ==
  /\ Len(results) >= 2
  /\ results[1].raw = LineOther /\ results[1].branch = "other"
  /\ \E j \in PacketsOf(results[1]) :
       /\ db.packets[j].packet_type = "message"
       /\ db.packets[j].to_callsign = <<"Z", "Z">>
  /\ results[2].branch = "stored"

\* the line is a server comment
IsComment(x) == HasPrefix(x.raw, <<"#">>)

\* C12 as stated (Scenario C): a server comment line is ignored: no packet
\* type (no audit record) is stored for it, no message is persisted, no ack
\* is sent and no error is returned.
C12_ScenarioC ==
  \A x \in Returned :
    IsComment(x) =>
      /\ PacketsOf(x) = {}
      /\ MessagesOf(x) = {} /\ AcksOf(x) = {} /\ ~x.err

\* C12 amended: a server comment line is ignored after the audit write: one
\* audit record of the raw line is stored unless that write fails (then
\* none), without callsigns and with packet type "other", or "message" when
\* the line contains "::"; the line is not parsed, no other request is made,
\* no message, conversation or log entry is persisted, no ack is sent and no
\* error is returned.
C12_CommentAuditedOnly ==
  \A x \in Returned :
    IsComment(x) =>
      /\ x.branch = "comment" /\ ~x.err
      /\ x.failed \subseteq {"audit"}
      /\ Cardinality(PacketsOf(x)) = (IF "audit" \in x.failed THEN 0 ELSE 1)
      /\ \A j \in PacketsOf(x) :
           /\ db.packets[j].raw_packet = x.raw
           /\ db.packets[j].packet_type =
                (IF Contains(x.raw, ColonColon) THEN "message" ELSE "other")
           /\ db.packets[j].from_callsign = <<>>
           /\ db.packets[j].to_callsign = <<>>
      /\ MessagesOf(x) = {} /\ x.corr = 0 /\ db.conversations = <<>>
      /\ LogsOf(x) = {}
      /\ AcksOf(x) = {}

\* the comment "# ok" was audited with packet type "other", and the audit
\* write of another comment failed
C12_CommentsAuditedAndNot ==
  /\ \E x \in Returned :
       /\ x.raw = LineComment
       /\ \E j \in PacketsOf(x) : db.packets[j].packet_type = "other"
  /\ \E x \in Returned :
       IsComment(x) /\ "audit" \in x.failed /\ PacketsOf(x) = {}

(***************************************************************************)
(* Properties of the dispatcher, checked under SpecOutbound.               *)
(***************************************************************************)
\* the ids of the outbound jobs in the Record Store
JobIds == {db.messages[i].id : i \in DOMAIN db.messages}

\* the job with an id, as the Record Store holds it
JobOf(k) == db.messages[CHOOSE i \in DOMAIN db.messages : db.messages[i].id = k]

\* the records of the jobs runMessageSender handled
Handlings == {i \in DOMAIN sendLog : sendLog[i].kind = "job"}

\* the calls of SendMessage for a job, and the lines written for it
SendsOf(k) == {i \in Handlings : sendLog[i].id = k /\ sendLog[i].valid}

WireOf(k) == {i \in DOMAIN sockOut : sockOut[i].kind = "msg" /\ sockOut[i].job = k}

\* C13: once a transmit of a job has been attempted the job is terminal:
\* SendMessage is called at most once for every job, so that every job is
\* put on the network at most once, whatever UpdateMessageStatus returned.
C13_JobTransmittedAtMostOnce ==
  \A k \in JobIds :
    /\ Cardinality(SendsOf(k)) <= 1
    /\ Cardinality(WireOf(k)) <= 1

\* the records of the handlings of a job, and those whose status update
\* the Record Store accepted
HandlingsOf(k) == {i \in Handlings : sendLog[i].id = k}

UpdatesOf(k) == {i \in HandlingsOf(k) : ~sendLog[i].patchErr}

\* C14: the dispatcher only moves a job from pending to delivered or to
\* failed: every UpdateMessageStatus call asks for delivered exactly when
\* SendMessage succeeded for the job and for failed exactly when validation
\* or SendMessage failed, never for another status; the Record Store holds
\* a job as delivered or failed only by such a call, which was the one
\* accepted update of that job, and nothing but status and metadata of a
\* job has changed.
C14_PendingToDeliveredOrFailed ==
  /\ \A i \in Handlings :
       /\ sendLog[i].status \in {"delivered", "failed"}
       /\ (sendLog[i].status = "delivered")
            <=> (sendLog[i].valid /\ ~sendLog[i].sendErr)
       /\ (sendLog[i].status = "failed")
            <=> (~sendLog[i].valid \/ sendLog[i].sendErr)
  /\ \A k \in JobIds :
       /\ JobOf(k).status \in {"pending", "delivered", "failed"}
       /\ Cardinality(UpdatesOf(k)) <= 1
       /\ JobOf(k).status = "pending" <=> UpdatesOf(k) = {}
       /\ \A i \in UpdatesOf(k) :
            /\ JobOf(k).status = sendLog[i].status
            /\ JobOf(k).metadata = sendLog[i].metadata
       /\ [JobOf(k) EXCEPT !.status = "pending",
                           !.metadata = Job(k, <<>>).metadata]
            = Job(k, JobOf(k).content)

\* one job is delivered after its line was written, and another is failed
\* after SendMessage returned an error for it
C14_OneDeliveredOneFailed ==
  /\ \E k \in JobIds :
       /\ JobOf(k).status = "delivered" /\ WireOf(k) # {}
  /\ \E k \in JobIds :
       /\ JobOf(k).status = "failed" /\ WireOf(k) = {}
       /\ \E i \in UpdatesOf(k) : sendLog[i].valid /\ sendLog[i].sendErr

\* a tick of the dispatcher's ticker taken while the client is not connected
SkippedCycle ==
  /\ sndPc = "wait" /\ ~connected
  /\ pollsLeft' = pollsLeft - 1

\* C15: a poll tick at which the session is not connected skips the whole
\* cycle: GetPendingMessages is not called (no poll is recorded and no
\* request reaches the Record Store), nothing is written to the socket and
\* the Record Store, with the status of every job, stays as it is.
C15_NotConnectedSkipsCycle ==
  [][SkippedCycle =>
       /\ sendLog' = sendLog /\ faultsLeft' = faultsLeft
       /\ sockOut' = sockOut
       /\ db' = db
       /\ batch' = batch /\ sndPc' = "wait"]_vars

\* every tick was taken without a connection: the ticks are used up and
\* nothing was polled, while a job is still pending
C15_TicksSkippedJobPending ==
  /\ ~connected /\ sndPc = "wait"
  /\ pollsLeft = 0 /\ sendLog = <<>>
  /\ \E k \in JobIds : JobOf(k).status = "pending"

\* the content is empty or holds a control character below 0x20 that is
\* neither tab nor LF nor CR
IllegalContent(content) ==
  \/ content = <<>>
  \/ \E j \in DOMAIN content :
       /\ Code(content[j]) < 32
       /\ content[j] \notin {"\t", "\n", "\r"}

\* the handlings of jobs with such a content
Rejections == {i \in Handlings : IllegalContent(sendLog[i].content)}

\* the poll whose cycle handling i belongs to, and the place of the
\* handling in that cycle
PollOf(i) ==
  CHOOSE p \in 1..i :
    /\ sendLog[p].kind = "poll"
    /\ \A q \in (p + 1)..i : sendLog[q].kind = "job"

\* C16: a pending job whose content is empty or contains a control
\* character below 0x20 other than tab, LF or CR is never transmitted (no
\* line on the socket carries it); each time the dispatcher handles it, it
\* asks the Record Store to mark it failed with the error "invalid
\* content", the job is failed with that error once the store accepted the
\* update, and the next job of the cycle is handled after it.
C16_InvalidContentFailed ==
  /\ \A k \in JobIds :
       IllegalContent(JobOf(k).content) =>
         /\ WireOf(k) = {}
         /\ JobOf(k).status \in {"pending", "failed"}
         /\ JobOf(k).status = "failed" =>
              JobOf(k).metadata.error = "invalid content"
  /\ \A i \in Rejections :
       /\ ~sendLog[i].valid
       /\ sendLog[i].status = "failed"
       /\ sendLog[i].metadata.error = "invalid content"
       /\ (i - PollOf(i) < sendLog[PollOf(i)].n /\ sndPc # "returned") =>
            \/ i < Len(sendLog) /\ sendLog[i + 1].kind = "job"
            \/ i = Len(sendLog) /\ sndPc = "job" /\ batch # <<>>

\* a job with a form feed in its content was marked failed and the job
\* after it in the same cycle was transmitted
C16_RejectedThenNextSent ==
  \E i \in Rejections :
    /\ sendLog[i].content = ContentControl
    /\ ~sendLog[i].patchErr
    /\ JobOf(sendLog[i].id).status = "failed"
    /\ i < Len(sendLog) /\ sendLog[i + 1].kind = "job"
    /\ WireOf(sendLog[i + 1].id) # {}

\* the message lines on the socket
MessageLinesOut == {i \in DOMAIN sockOut : sockOut[i].kind = "msg"}

EndsWithEllipsis(content) ==
  /\ Len(content) >= 3
  /\ SubSeq(content, Len(content) - 2, Len(content)) = Ellipsis

\* the content part of every message line is at most 67 characters long
\* and ends with "..." when the sanitized content of its job was longer
\* than 67 characters; the line is the message packet for that content
ContentPartFits ==
  \A i \in MessageLinesOut :
    /\ Len(sockOut[i].content) <= 67
    /\ Len(sanitizeMessageContent(JobOf(sockOut[i].job).content)) > 67
         => EndsWithEllipsis(sockOut[i].content)
    /\ sockOut[i].text
         = messagePacket(sockOut[i].to, sockOut[i].content, sockOut[i].id)

\* the dispatcher has just handled a job whose content was valid
JustSent ==
  /\ sendLog # <<>>
  /\ sendLog[Len(sendLog)].kind = "job"
  /\ sendLog[Len(sendLog)].valid

LastSent == sendLog[Len(sendLog)]

\* C17 as stated (Scenario D): the content part of every line written for
\* a job is at most 67 characters long and ends with "..." when the
\* sanitized content was longer; after the dispatcher handled a job, the
\* job is delivered if the write succeeded and failed if it did not.
C17_ScenarioD ==
  /\ ContentPartFits
  /\ JustSent =>
       JobOf(LastSent.id).status
         = IF LastSent.sendErr THEN "failed" ELSE "delivered"

\* C17, amended: the content part of every line written for a job is at
\* most 67 characters long and ends with "..." when the sanitized content
\* was longer; after a successful write the dispatcher asks the Record
\* Store to mark the job delivered and after a write error to mark it
\* failed, and the job has that status when the store accepted the update,
\* while it is still pending when the store did not.
C17_TruncatedAndStatusRequested ==
  /\ ContentPartFits
  /\ JustSent =>
       /\ LastSent.status = IF LastSent.sendErr THEN "failed" ELSE "delivered"
       /\ JobOf(LastSent.id).status
            = IF LastSent.patchErr THEN "pending" ELSE LastSent.status

\* a job with a content of 100 characters was written with a content part
\* of 67 characters ending in "..." and is delivered, and a job is still
\* pending after a write because the store refused the update
C17_LongContentDelivered ==
  /\ \E i \in MessageLinesOut :
       /\ Len(JobOf(sockOut[i].job).content) = 100
       /\ Len(sockOut[i].content) = 67
       /\ EndsWithEllipsis(sockOut[i].content)
       /\ JobOf(sockOut[i].job).status = "delivered"
  /\ \E i \in MessageLinesOut : JobOf(sockOut[i].job).status = "pending"

(***************************************************************************)
(* Properties of the text functions, checked under SpecCodec.              *)
(***************************************************************************)
Truncated == codecOut.fn = "truncate"

\* C18 as stated: for every content and every limit >= 0 truncateForAPRS
\* returns a string that is not longer than the limit, that is the content
\* when len(content) <= limit and that ends with "..." when
\* len(content) > limit.
C18_TruncateEveryLimit ==
  Truncated =>
    /\ ~codecOut.r.panic
    /\ Len(codecOut.r.s) <= codecIn.limit
    /\ Len(codecIn.text) <= codecIn.limit => codecOut.r.s = codecIn.text
    /\ Len(codecIn.text) > codecIn.limit => EndsWithEllipsis(codecOut.r.s)

\* C18, amended: truncateForAPRS never returns a string longer than the
\* limit, for every content and every limit >= 0; it returns the content
\* unchanged when len(content) <= limit; when len(content) > limit it
\* returns a string that ends with "..." if limit >= 3, and returns nothing
\* (the slice content[:limit-3] panics) if limit < 3.
C18_TruncateWithinLimit ==
  Truncated =>
    /\ ~codecOut.r.panic => Len(codecOut.r.s) <= codecIn.limit
    /\ Len(codecIn.text) <= codecIn.limit
         => codecOut.r = Returns(codecIn.text)
    /\ (Len(codecIn.text) > codecIn.limit /\ codecIn.limit >= 3)
         => /\ ~codecOut.r.panic
            /\ EndsWithEllipsis(codecOut.r.s)
    /\ (Len(codecIn.text) > codecIn.limit /\ codecIn.limit < 3)
         => codecOut.r.panic

\* a text of five characters was cut to four, the last three the ellipsis
C18_CutToLimit ==
  /\ Truncated
  /\ codecIn.text = <<"a", "a", "a", "a", "a">> /\ codecIn.limit = 4
  /\ codecOut.r = Returns(<<"a", ".", ".", ".">>)

Sanitized == codecOut.fn = "sanitize"

\* the positions of the input whose character is not dropped: everything
\* but the control characters below 0x20 other than tab, CR and LF
KeptPositions(text) ==
  {i \in DOMAIN text :
     Code(text[i]) >= 32 \/ text[i] \in {"\t", "\r", "\n"}}

\* the place in the output of the character at a kept position
PlaceOf(text, i) == Cardinality({j \in KeptPositions(text) : j <= i})

\* C19: the output of sanitizeMessageContent contains no character below
\* 0x20 except tab; the characters of the input that are not dropped keep
\* their order and fill the output, every CR and LF as a single space at
\* its place, every character >= 0x20 and every tab as itself; every other
\* control character is dropped.
C19_SanitizeContent ==
  Sanitized =>
    /\ \A j \in DOMAIN codecOut.r :
         Code(codecOut.r[j]) >= 32 \/ codecOut.r[j] = "\t"
    /\ Len(codecOut.r) = Cardinality(KeptPositions(codecIn.text))
    /\ \A i \in KeptPositions(codecIn.text) :
         codecOut.r[PlaceOf(codecIn.text, i)]
           = IF codecIn.text[i] \in {"\r", "\n"} THEN " "
             ELSE codecIn.text[i]

\* a CR became a space, a form feed was dropped and a tab was kept
C19_LineEndingReplaced ==
  /\ Sanitized
  /\ codecIn.text = <<"a", "\r", "\f", "\t">>
  /\ codecOut.r = <<"a", " ", "\t">>

Parsed == codecOut.fn = "parse"

\* C20: for every valid message line (sender, path, space-padded
\* recipient, content, optional {id), with the sender and the recipient in
\* upper or in lower case and the path with or without a comma,
\* parseAPRSMessage succeeds and returns the sender in upper case, the
\* recipient in upper case without its padding, the content trimmed and
\* the message id, which is empty when {id is omitted.
C20_ParseValidLine ==
  Parsed =>
    /\ ~codecOut.r.err
    /\ codecOut.r.FromCallsign = ToUpper(codecIn.from)
    /\ codecOut.r.ToCallsign = ToUpper(codecIn.to)
    /\ codecOut.r.Content = TrimSpace(codecIn.content)
    /\ codecOut.r.MessageID = codecIn.id

HandlerApplied == codecOut.fn = "handle"

DoubleColon == <<":", ":">>

\* C21: for every line that does not contain "::" parseAPRSMessage reports
\* "not a message", and handleAPRSPacket skips the line without an error:
\* it returns nil after the audit write, looks up no sender, stores no
\* message and owes no acknowledgement.
C21_NoDoubleColonNotAMessage ==
  (HandlerApplied /\ ~Contains(codecIn.text, DoubleColon)) =>
    /\ codecOut.parse.err
    /\ ~codecOut.r.err
    /\ codecOut.r.branch \in {"comment", "notmsg"}
    /\ codecOut.r.pend.kind = "none"
    /\ codecOut.r.used = {"audit"}
    /\ codecOut.r.db.messages = <<>>

\* a message line whose "::" is a single colon was skipped without an
\* error
C21_SingleColonSkipped ==
  /\ HandlerApplied
  /\ codecIn.text = <<"A","1",">","X",",","Y",":","R","S"," ",":","h","i","{","1">>
  /\ codecOut.parse.err /\ ~codecOut.r.err
  /\ codecOut.r.branch = "notmsg"

RoundTripped == codecOut.fn = "roundtrip"

\* parseAPRSMessage recovered what SendMessage was called with
Recovered ==
  /\ ~codecOut.r.err
  /\ codecOut.r.FromCallsign = Callsign
  /\ codecOut.r.ToCallsign = codecIn.to
  /\ codecOut.r.Content = codecIn.content
  /\ codecOut.r.MessageID = codecIn.id

\* C22 as stated: for every recipient, content and message id the line
\* SendMessage builds, without its line terminator, is parsed by
\* parseAPRSMessage into the same recipient, content and message id.
C22_RoundTrip == RoundTripped => Recovered

\* the text ends with a "{" that is not its first character, followed by
\* one or more letters or digits
EndsLikeId(content) ==
  \E k \in DOMAIN content :
    /\ content[k] = "{" /\ 1 < k /\ k < Len(content)
    /\ \A j \in (k + 1)..Len(content) : IsAlnum(content[j])

\* the arguments the round trip recovers
Recoverable ==
  /\ codecIn.to # <<>> /\ \A j \in DOMAIN codecIn.to : IsCallChar(codecIn.to[j])
  /\ codecIn.content # <<>> /\ codecIn.content = TrimSpace(codecIn.content)
  /\ \A j \in DOMAIN codecIn.id : IsAlnum(codecIn.id[j])
  /\ codecIn.id = <<>> => ~EndsLikeId(codecIn.content)

\* C22, amended: the round trip recovers the recipient, the content and the
\* message id exactly when the recipient consists of upper-case letters,
\* digits and "-", the message id of letters and digits, and the content
\* is not empty, has no white space at its start or end and, if the
\* message id is empty, does not end with a "{" after its first character
\* followed by letters or digits.
C22_RoundTripOfTrimmedContent == RoundTripped => (Recovered <=> Recoverable)

\* a content with a brace and a colon inside came back with its message id
C22_BraceInsideRecovered ==
  /\ RoundTripped /\ Recovered
  /\ codecIn.content = <<"a", "{", ":">> /\ codecIn.id = <<"4", "2">>

(***************************************************************************)
(* Properties of the supervisor, checked under Spec.                       *)
(***************************************************************************)
\* runService leaves the position pc
SupLeaves(pc) == supPc = pc /\ supPc' # pc

\* the Connect of this step succeeded: its login line is on a new socket
ConnectSucceeds == SupLeaves("connect") /\ conn' = conn + 1

ConnectFails == SupLeaves("connect") /\ conn' = conn

\* C23: in a retry cycle the sleep before the retry after the i-th failed
\* Connect lasts the initial delay doubled i-1 times, so each delay is
\* twice the previous one; a failed Connect that is not the last of the
\* cycle is followed by that sleep and then by the next Connect; a
\* successful Connect is followed by no further attempt but by
\* StartHeartbeat, which starts the heartbeat of the new socket, and by the
\* call of Listen.
C23_BackoffThenListen ==
  [][ /\ supPc \in {"connect", "retrySleep", "startHB"} =>
           /\ attempt < MaxRetries
           /\ delay = InitialDelay * (2 ^ attempt)
      /\ (ConnectFails /\ attempt < MaxRetries - 1) =>
           /\ supPc' = "retrySleep" /\ UNCHANGED retryVars
      /\ SupLeaves("retrySleep") =>
           /\ supPc' = "connect"
           /\ delay' = 2 * delay /\ attempt' = attempt + 1
      /\ ConnectSucceeds =>
           /\ supPc' = "startHB" /\ UNCHANGED retryVars
      /\ SupLeaves("startHB") =>
           /\ hbPc'[conn] = "select"
           /\ supPc' = IF connected THEN "listen" ELSE "listenRet"
           /\ conn' = conn
    ]_vars

\* Scenario E: Connect has failed three times and then succeeded, after
\* sleeps of 5, 10 and 20 seconds
C23_ThreeFailuresThenSuccess ==
  /\ supPc = "startHB" /\ connected
  /\ attempt = 3 /\ delay = 40

\* the status the Record Store holds for the connector
StoredStatus(d) ==
  IF FirstIndex(d.status, "service", "aprs-connector") = 0 THEN "none"
  ELSE d.status[FirstIndex(d.status, "service", "aprs-connector")].status

\* what C24 says of the retries themselves: a cycle calls Connect with the
\* attempt numbers 0 to 4 only, the last failed attempt is followed by no
\* sleep, the wait after the error status starts neither the heartbeat nor
\* Listen, and the cycle after it starts with the initial delay
RetriesBounded ==
  /\ supPc \in {"connect", "retrySleep"} => attempt < MaxRetries
  /\ supPc = "retrySleep" => attempt < MaxRetries - 1
  /\ (ConnectFails /\ attempt = MaxRetries - 1) =>
       /\ supPc' = "connFailed" /\ UNCHANGED hbPc
  /\ SupLeaves("connFailed") => (supPc' = "errWait" /\ UNCHANGED hbPc)
  /\ SupLeaves("errWait") =>
       /\ supPc' = IF ctxDone THEN "returned" ELSE "top"
       /\ UNCHANGED <<hbPc, clientVars, db>>
  /\ (SupLeaves("top") /\ ~ctxDone) =>
       /\ supPc' = "connect"
       /\ attempt' = 0 /\ delay' = InitialDelay

\* C24 as stated: retries are bounded as above, and when all attempts of a
\* cycle have failed the status "error" is recorded in the Record Store.
C24_RetriesBoundedErrorRecorded ==
  [][ /\ RetriesBounded
      /\ SupLeaves("connFailed") => StoredStatus(db') = "error"
    ]_vars

\* C24, amended: retries are bounded as above, and when all attempts of a
\* cycle have failed the supervisor asks the Record Store to record the
\* status "error": the store holds it when it answered every request of
\* the update, and else is unchanged or holds a second status record.
C24_RetriesBoundedErrorRequested ==
  [][ /\ RetriesBounded
      /\ SupLeaves("connFailed") =>
           /\ faultsLeft' = faultsLeft => StoredStatus(db') = "error"
           /\ \/ db' = db
              \/ \E i \in DOMAIN db'.status : db'.status[i].status = "error"
    ]_vars

\* a cycle of five failed attempts has ended with the error status stored
\* and the next cycle has begun with the initial delay
C24_FreshCycleAfterError ==
  /\ supPc = "connect" /\ attempt = 0 /\ delay = InitialDelay
  /\ StoredStatus(db) = "error"
  /\ ~connected /\ \A t \in Sockets : hbPc[t] = "none"

\* C25: once the cancellation signal has been raised (the context of
\* runService is cancelled), runService starts no further Connect attempt.
C25_NoConnectAfterCancel ==
  [][ctxDone => ~SupLeaves("connect")]_vars

(***************************************************************************)
(* Properties of the three goroutines together, checked under SpecBridge.  *)
(***************************************************************************)
\* main has received the signal and its aprsClient.Disconnect() of the
\* graceful shutdown has returned
SignalHandled == mainPc \in {"discStatus", "finalStatus", "return", "cancelled"}

\* the step appends a line of the given kind to a socket
Writes(kind) ==
  /\ Len(sockOut') = Len(sockOut) + 1
  /\ sockOut'[Len(sockOut')].kind = kind

\* C26: after the signal is handled runMessageSender fetches and transmits
\* no further job, the heartbeat sends no further beacon, runService makes
\* no further Connect attempt, and the process does not panic.
C26_AllStopAfterSignal ==
  [][SignalHandled =>
       /\ sendLog' = sendLog /\ ~Writes("msg")
       /\ ~Writes("beacon")
       /\ ~SupLeaves("connect")
       /\ ~panicked'
    ]_vars

\* the step is a conn.Write that returns an error: of the beacon in the
\* heartbeat goroutine, of the acknowledgement in sendACK, of the message
\* line in SendMessage
FailedBeaconWrite ==
  \E t \in Sockets : hbPc[t] = "write" /\ hbPc'[t] = "status" /\ ~CanWrite

FailedAckWrite ==
  /\ supPc = "ack" /\ supPc' = "listen"
  /\ cur.pend.id # <<>> /\ connected /\ ~CanWrite

FailedMessageWrite ==
  /\ sndPc = "job" /\ Len(sendLog') = Len(sendLog) + 1
  /\ sendLog'[Len(sendLog')].valid /\ sendLog'[Len(sendLog')].sendErr
  /\ connected /\ ~CanWrite

\* C27: a failed write of SendMessage, sendACK or the heartbeat leaves
\* IsConnected() false, and so does a read error of Listen once Listen has
\* returned it to runService and runService has taken its next step.
C27_FailureMarksDisconnected ==
  [][ /\ FailedBeaconWrite \/ FailedAckWrite \/ FailedMessageWrite
          => ~IsConnected(connected')
      /\ supPc = "listenRet" /\ supPc' # "listenRet" /\ listenErr = "err"
          => ~IsConnected(connected') \/ panicked'
    ]_vars

\* the step is handleAPRSPacket calling sendACK, and what sendACK returns
AckCall == supPc = "ack" /\ supPc' = "listen" /\ cur.pend.id # <<>>

AckResult == sendACK(sockOut, cur.pend.to, cur.pend.id, cur.pid)

\* the step is runMessageSender calling SendMessage for the job at the head
\* of the batch, and what SendMessage returns
MessageCall ==
  /\ sndPc = "job" /\ Len(sendLog') = Len(sendLog) + 1
  /\ sendLog'[Len(sendLog')].valid

MessageResult ==
  SendMessage(sockOut, TargetOf(Head(batch)),
              sendLog'[Len(sendLog')].truncated,
              sendLog'[Len(sendLog')].metadata.aprs_message_id,
              Head(batch).id)

\* text is one line: it ends with CR LF and has no line ending before
OneLine(text) ==
  /\ Len(text) >= 3
  /\ text[Len(text) - 1] = "\r" /\ text[Len(text)] = "\n"
  /\ \A i \in 1..(Len(text) - 2) : text[i] \notin {"\r", "\n"}

\* the step puts exactly one line on the socket, the one the call returned
WroteOneLine(out) ==
  /\ sockOut' = out
  /\ Len(out) = Len(sockOut) + 1
  /\ SubSeq(out, 1, Len(sockOut)) = sockOut
  /\ OneLine(out[Len(out)].text)

\* C28: SendMessage and sendACK fail with a "not connected" error and write
\* nothing when the client is not connected; when it is connected they
\* write exactly one line terminated by CR LF.
C28_OneLineWhenConnected ==
  [][ /\ AckCall =>
           IF ~connected
           THEN AckResult.err = "not connected to APRS-IS" /\ sockOut' = sockOut
           ELSE AckResult.err = "" /\ WroteOneLine(AckResult.out)
      /\ MessageCall =>
           IF ~connected
           THEN MessageResult.why = "not connected to APRS-IS" /\ sockOut' = sockOut
           ELSE MessageResult.why = "" /\ WroteOneLine(MessageResult.out)
    ]_vars

\* C28, amended: SendMessage and sendACK fail with a "not connected" error
\* and write nothing when the client is not connected; when it is connected
\* they make one write of one line terminated by CR LF, and the line is on
\* the socket when the write succeeds; when the write fails they return a
\* "failed to send" error and no line is on the socket.
C28_OneWriteWhenConnected ==
  [][ /\ AckCall =>
           IF ~connected
           THEN AckResult.err = "not connected to APRS-IS" /\ sockOut' = sockOut
           ELSE IF CanWrite
           THEN AckResult.err = "" /\ WroteOneLine(AckResult.out)
           ELSE AckResult.err = "failed to send ACK" /\ sockOut' = sockOut
      /\ MessageCall =>
           IF ~connected
           THEN MessageResult.why = "not connected to APRS-IS" /\ sockOut' = sockOut
           ELSE IF CanWrite
           THEN MessageResult.why = "" /\ WroteOneLine(MessageResult.out)
           ELSE MessageResult.why = "failed to send message" /\ sockOut' = sockOut
    ]_vars

\* on the first socket, never disconnected, an acknowledgement has been
\* written, the connection has broken and the write of SendMessage has
\* failed for a job with valid content
C28_AckWrittenMessageWriteFailed ==
  /\ conn = 1 /\ sockOpen /\ connected /\ link = "down"
  /\ \E i \in DOMAIN sockOut : sockOut[i].kind = "ack"
  /\ sendLog # <<>>
  /\ sendLog[Len(sendLog)].kind = "job"
  /\ sendLog[Len(sendLog)].valid /\ sendLog[Len(sendLog)].sendErr

(***************************************************************************)
(* Properties of Connect, checked under Spec.                              *)
(***************************************************************************)
\* C29: a Connect that succeeds has written exactly one login line, on the
\* new socket, has set connected and has read nothing from the server; a
\* Connect that fails leaves the client not connected, with no open socket
\* and nothing written.
C29_ConnectAllOrNothing ==
  [][ /\ ConnectSucceeds =>
           /\ connected' /\ sockOpen'
           /\ Writes("login")
           /\ SubSeq(sockOut', 1, Len(sockOut)) = sockOut
           /\ sockOut'[Len(sockOut')].conn = conn'
           /\ sockOut'[Len(sockOut')].text = loginString
           /\ OneLine(loginString)
           /\ UNCHANGED <<linesLeft, results, cur>>
      /\ ConnectFails =>
           /\ ~connected' /\ ~sockOpen'
           /\ UNCHANGED <<sockOut, linesLeft, results, cur>>
    ]_vars

\* the second session is up after a Connect of the same retry cycle failed:
\* each socket carries one login line and the client is connected
C29_SecondSessionAfterFailure ==
  /\ supPc = "startHB" /\ attempt >= 1
  /\ conn = 2 /\ connected /\ sockOpen
  /\ \A c \in 1..2 :
       Cardinality({i \in DOMAIN sockOut :
                      sockOut[i].kind = "login" /\ sockOut[i].conn = c}) = 1

(***************************************************************************)
(* Properties of the shared socket, checked under SpecBridge.              *)
(***************************************************************************)
\* the step reads from the socket: it takes a line the server sent, or goes
\* on with the packet read
ReadsSocket == linesLeft' # linesLeft \/ cur' # cur \/ results' # results

\* the step appends one whole line to the socket and changes nothing before
AppendsOneLine ==
  /\ Len(sockOut') = Len(sockOut) + 1
  /\ SubSeq(sockOut', 1, Len(sockOut)) = sockOut
  /\ OneLine(sockOut'[Len(sockOut')].text)

\* the task that wrote the line the step appended is the one at its write:
\* Connect of runService for the login, the read loop in sendACK for an
\* acknowledgement, the heartbeat goroutine for a beacon, runMessageSender
\* for a message
WrittenBy(kinds) ==
  \E l \in {sockOut'[Len(sockOut')]} :
    /\ l.kind \in kinds
    /\ l.kind = "login" => supPc = "connect"
    /\ l.kind = "ack" => supPc = "ack" /\ supPc' = "listen"
    /\ l.kind = "beacon" =>
         /\ l.task \in Sockets
         /\ hbPc[l.task] = "write" /\ hbPc'[l.task] = "status"
    /\ l.kind = "msg" => sndPc = "job"

\* only the goroutine of runService, in Listen, reads: no step of a
\* heartbeat goroutine or of runMessageSender does
OnlyReadLoopReads ==
  ReadsSocket =>
    /\ supPc \in {"listen", "ack"}
    /\ hbPc' = hbPc
    /\ UNCHANGED <<sndPc, batch, pollsLeft, sendLog>>

\* C30: the read loop only reads the socket, only the heartbeat and the
\* dispatcher write to it (after the login line of Connect), and no two
\* tasks write at the same time: every step that writes appends one whole
\* line of one task.
C30_ReadLoopOnlyReads ==
  [][ /\ OnlyReadLoopReads
      /\ sockOut' # sockOut =>
           AppendsOneLine /\ WrittenBy({"login", "beacon", "msg"})
    ]_vars

\* C30, amended: only the read loop reads the socket; the read loop also
\* writes, namely the acknowledgements, and the heartbeat and the
\* dispatcher only write; no two tasks write at the same time: every step
\* that writes appends one whole line of one task.
C30_ReadLoopReadsAndAcks ==
  [][ /\ OnlyReadLoopReads
      /\ sockOut' # sockOut =>
           AppendsOneLine /\ WrittenBy({"login", "ack", "beacon", "msg"})
    ]_vars

\* the line of a job is on the first socket, and the heartbeat goroutine
\* and the read loop are both about to write to it
C30_TwoTasksAboutToWrite ==
  /\ conn = 1 /\ connected /\ CanWrite
  /\ hbPc[1] = "write"
  /\ supPc = "ack" /\ cur.pend.id # <<>>
  /\ \E i \in DOMAIN sockOut : sockOut[i].kind = "msg" /\ sockOut[i].conn = 1

(***************************************************************************)
(* Properties of the Record Store client (database.go).                    *)
(***************************************************************************)
\* C31: the Record Store holds at most one status record for the service
\* "aprs-connector", whatever UpdateSystemStatus calls have been made.
C31_OneStatusRecord ==
  Cardinality({i \in DOMAIN db.status :
                 db.status[i].service = "aprs-connector"}) <= 1

\* IsAuthorizedMember has been called
AuthCalled == codecOut.fn = "IsAuthorizedMember"

\* a member record matches the upper-cased callsign
MemberExists == ToUpper(codecIn.callsign) \in DOMAIN MemberProfiles

\* the member query is answered with the member record, and the account it
\* links is fetched and approved
ApprovedMember ==
  /\ codecIn.r["member"] = "ok" /\ MemberExists
  /\ codecIn.r["user"] = "ok"
  /\ UsersApproved[MemberProfiles[ToUpper(codecIn.callsign)]]

\* the member query failed: no answer, or a status other than 200 and 404
MemberQueryFailed == codecIn.r["member"] \in {"neterr", "http5xx"}

\* the account of the member found is asked for and the request gets no
\* answer
AccountRequestFailed ==
  /\ codecIn.r["member"] = "ok" /\ MemberExists
  /\ codecIn.r["user"] = "neterr"

\* C32: IsAuthorizedMember returns true only for a member whose linked
\* account is approved; a missing member, or an account that cannot be
\* fetched or is not approved, gives false without an error; a failed
\* member query gives an error.
C32_AuthorizedOnlyIfApproved ==
  AuthCalled =>
    /\ codecOut.r.res <=> ApprovedMember
    /\ codecOut.r.err <=> MemberQueryFailed

\* C32, amended: as C32, except that an account request the store does not
\* answer gives an error too; an account the store answers with a status
\* other than 200, or that is not approved, gives false without an error.
C32_AuthorizedOnlyIfApprovedOrError ==
  AuthCalled =>
    /\ codecOut.r.res <=> ApprovedMember
    /\ codecOut.r.err <=> MemberQueryFailed \/ AccountRequestFailed
    /\ codecOut.r.err => ~codecOut.r.res

\* the callsign of a member whose account is not approved was looked up,
\* every request was answered, and the result is false without an error
C32_UnapprovedMemberRefused ==
  /\ AuthCalled
  /\ codecIn.callsign = <<"C","3">>
  /\ codecIn.r = AllOk
  /\ ~codecOut.r.res /\ ~codecOut.r.err

\* the store answered a request the call made with a status outside 2xx
NonSuccessAnswer ==
  \E q \in codecOut.r.used : codecIn.r[q] \in {"http5xx", "http404"}

\* C33: every call of the Record Store client returns an error when the
\* store answers one of its requests with a status outside 2xx.
C33_NonSuccessIsError ==
  codecOut.fn \in StoreFunctions => (NonSuccessAnswer => codecOut.r.err)

(***************************************************************************)
(* Properties of the dispatcher and a session that goes down, checked      *)
(* under SpecOutbound.                                                     *)
(***************************************************************************)
\* the status the Record Store holds for the job with an id
JobStatus(d, id) ==
  The({d.messages[i].status : i \in RecordsWithId(d, id)})

\* the session is down: the client was disconnected or the connection broke
SessionDown == ~connected \/ ~CanWrite

\* C34: a job with valid content that the dispatcher turns to while the
\* session is down is not transmitted and remains pending.
C34_DownSessionKeepsPending ==
  [][ /\ SkippedCycle => UNCHANGED <<db, batch, sendLog, sockOut>>
      /\ MessageCall /\ SessionDown =>
           /\ sockOut' = sockOut
           /\ JobStatus(db', Head(batch).id) = "pending"
    ]_vars

\* C34, amended: a cycle that begins while the client is not connected is
\* skipped and its jobs remain pending; a job with valid content that the
\* dispatcher turns to after the session has gone down within the cycle is
\* not transmitted, SendMessage fails and the dispatcher asks the Record
\* Store to mark the job failed: the job is failed when the store accepts
\* the update and remains pending when it refuses it.
C34_DownSessionFailsJob ==
  [][ /\ SkippedCycle => UNCHANGED <<db, batch, sendLog, sockOut>>
      /\ MessageCall /\ SessionDown =>
           /\ sockOut' = sockOut
           /\ sendLog'[Len(sendLog')].sendErr
           /\ sendLog'[Len(sendLog')].status = "failed"
           /\ JobStatus(db', Head(batch).id) =
                IF sendLog'[Len(sendLog')].patchErr THEN "pending" ELSE "failed"
    ]_vars

\* the connection broke after the jobs were fetched, the job with valid
\* content was not transmitted and the Record Store holds it as failed
C34_JobFailedAfterLinkDown ==
  /\ connected /\ link = "down"
  /\ sendLog # <<>>
  /\ \E rec \in {sendLog[Len(sendLog)]} :
       /\ rec.kind = "job" /\ rec.valid /\ rec.sendErr /\ ~rec.patchErr
       /\ JobStatus(db, rec.id) = "failed"
  /\ \A i \in DOMAIN sockOut : sockOut[i].kind # "msg"

(***************************************************************************)
(* Properties of the audit trail, checked under Spec, where the Record     *)
(* Store answers every request.                                            *)
(***************************************************************************)
\* the step takes a line from the server
LineRead == linesLeft' = linesLeft - 1

\* the line was blank: Listen goes on to the next without a call
BlankSkipped == UNCHANGED <<supPc, listenErr, cur, db, corrSeq, results>>

\* the step wrote one audit record before any other record: the packets
\* collection is one longer, and the new record is that of the line read
AuditedFirst ==
  /\ Len(db'.packets) = Len(db.packets) + 1
  /\ db'.packets[Len(db'.packets)].pid = Len(results) + 1

\* C35: for every non-empty line Listen reads, the audit record is written,
\* once, and the line is processed.
C35_EveryLineAudited ==
  [][LineRead => BlankSkipped \/ AuditedFirst]_vars

(***************************************************************************)
(* Properties of storeRawPacket, checked under SpecCodec.                  *)
(***************************************************************************)
\* handleAPRSPacket was applied to a line and the Record Store took the
\* audit record
AuditStored == HandlerApplied /\ codecIn.audit = "ok"

\* messageRegex matches the line
RegexMatches == FindStringSubmatch(codecIn.text).ok

\* C36: the audit record of a line has the packet type "message" exactly
\* when the line contains "::", matched by messageRegex or not, and "other"
\* otherwise; its from and to callsigns are set only when messageRegex
\* matches the line.
C36_AuditClassification ==
  AuditStored =>
    /\ Len(codecOut.r.db.packets) = 1
    /\ \E rec \in {codecOut.r.db.packets[1]} :
         /\ rec.raw_packet = codecIn.text
         /\ rec.packet_type =
              IF Contains(codecIn.text, ColonColon) THEN "message" ELSE "other"
         /\ rec.from_callsign # <<>> \/ rec.to_callsign # <<>> => RegexMatches
         /\ RegexMatches =>
              /\ rec.from_callsign = ToUpper(FindStringSubmatch(codecIn.text).g1)
              /\ rec.to_callsign = ToUpper(FindStringSubmatch(codecIn.text).g3)

\* a line with "::" that messageRegex does not match is filed as a message
\* without callsigns
C36_UnmatchedFiledAsMessage ==
  /\ AuditStored
  /\ Contains(codecIn.text, ColonColon) /\ ~RegexMatches
  /\ codecOut.r.db.packets[1].packet_type = "message"
  /\ codecOut.r.db.packets[1].from_callsign = <<>>
  /\ codecOut.r.db.packets[1].to_callsign = <<>>

(***************************************************************************)
(* Properties of the content the dispatcher hands to SendMessage.          *)
(***************************************************************************)
\* sanitizeMessageContent was applied to a content isValidMessageContent
\* accepts
ValidSanitized ==
  codecOut.fn = "sanitize" /\ isValidMessageContent(codecIn.text)

\* C37: for every content isValidMessageContent accepts,
\* sanitizeMessageContent returns a non-empty text of the same length in
\* which only the line endings are replaced, by spaces; truncateForAPRS
\* at the limit of the dispatcher leaves it non-empty.
C37_ValidContentStaysNonEmpty ==
  ValidSanitized =>
    /\ codecOut.r # <<>>
    /\ Len(codecOut.r) = Len(codecIn.text)
    /\ \A i \in DOMAIN codecIn.text :
         codecOut.r[i] = IF codecIn.text[i] \in {"\r", "\n"} THEN " "
                         ELSE codecIn.text[i]
    /\ truncateForAPRS(codecOut.r, APRSLimit) = Returns(codecOut.r)

\* a content of line endings only is accepted and becomes as many spaces
C37_LineEndingsBecomeSpaces ==
  /\ ValidSanitized
  /\ codecIn.text = <<"\r", "\n">>
  /\ codecOut.r = <<" ", " ">>


(***************************************************************************)
(* The fields connected and conn of APRSClient, statement by statement.    *)
(* Connect, Disconnect, the heartbeat goroutines and SendMessage read and  *)
(* write the two fields with no lock and no channel between them, so every *)
(* assignment and every read is a step of its own here.  The Record Store  *)
(* calls, the packets and the lines on the wire are left out: no statement *)
(* between the steps below touches either field.                           *)
(***************************************************************************)
fieldsIdle ==
  <<link, delay, listenErr, ctxDone, cur, db, sockOut, corrSeq, linesLeft,
    faultsLeft, discCalls, results, batch, sendLog, codecIn, codecOut>>

\* Connect, lines 58-63: the dial; on failure Connect returns before either
\* field is touched and retryWithBackoff calls it again
ConnectDial ==
  /\ Running /\ supPc = "top" /\ conn < MaxSessions
  /\ \/ supPc' = "line65" /\ UNCHANGED attempt
     \/ attempt < MaxRetries /\ attempt' = attempt + 1 /\ UNCHANGED supPc
  /\ UNCHANGED <<fieldsIdle, clientVars, mainPc, hbPc, panicked, ticksLeft,
                 sndPc, pollsLeft>>

\* a.conn = conn
ConnectStoreConn ==
  /\ Running /\ supPc = "line65"
  /\ conn' = conn + 1 /\ sockOpen' = TRUE
  /\ supPc' = "line66"
  /\ UNCHANGED <<fieldsIdle, connected, stopClosed, mainPc, attempt, hbPc,
                 panicked, ticksLeft, sndPc, pollsLeft>>

\* a.connected = true
ConnectSetConnected ==
  /\ Running /\ supPc = "line66"
  /\ connected' = TRUE
  /\ supPc' = "line74"
  /\ UNCHANGED <<fieldsIdle, conn, sockOpen, stopClosed, mainPc, attempt,
                 hbPc, panicked, ticksLeft, sndPc, pollsLeft>>

\* the login write: when it fails a.conn.Close(); when it succeeds Connect
\* returns nil, runService starts the heartbeat goroutine and calls Listen
ConnectLogin ==
  /\ Running /\ supPc = "line74"
  /\ \/ /\ sockOpen' = FALSE
        /\ supPc' = "line76"
        /\ UNCHANGED <<hbPc, attempt>>
     \/ /\ sockOpen
        /\ hbPc' = [hbPc EXCEPT ![conn] = "select"]
        /\ supPc' = "listen" /\ attempt' = 0
        /\ UNCHANGED sockOpen
  /\ UNCHANGED <<fieldsIdle, connected, conn, stopClosed, mainPc, panicked,
                 ticksLeft, sndPc, pollsLeft>>

\* a.connected = false after the failed login write; Connect returns the error
ConnectClearConnected ==
  /\ Running /\ supPc = "line76"
  /\ connected' = FALSE
  /\ supPc' = "top"
  /\ UNCHANGED <<fieldsIdle, conn, sockOpen, stopClosed, mainPc, attempt,
                 hbPc, panicked, ticksLeft, sndPc, pollsLeft>>

\* Listen returns (read error, end of stream or closed stop channel) and
\* runService calls Disconnect; main receives a signal and calls Disconnect
DisconnectCalled(who) ==
  /\ Running
  /\ \/ who = "sup" /\ supPc = "listen" /\ supPc' = "line102" /\ UNCHANGED mainPc
     \/ who = "main" /\ mainPc = "wait" /\ mainPc' = "line102" /\ UNCHANGED supPc
  /\ UNCHANGED <<fieldsIdle, clientVars, attempt, hbPc, panicked, ticksLeft,
                 sndPc, pollsLeft>>

\* the position of the caller of Disconnect
DisconnectPc(who) == IF who = "main" THEN mainPc ELSE supPc

\* the caller of Disconnect moves to position pc
DisconnectGoes(who, pc) ==
  IF who = "main" THEN mainPc' = pc /\ UNCHANGED supPc
                  ELSE supPc' = pc /\ UNCHANGED mainPc

\* close(a.stopChannel): a panic when the channel is closed already
DisconnectCloseStop(who) ==
  /\ Running /\ DisconnectPc(who) = "line102"
  /\ IF stopClosed
     THEN panicked' = TRUE /\ UNCHANGED <<stopClosed, mainPc, supPc>>
     ELSE stopClosed' = TRUE /\ DisconnectGoes(who, "line104") /\ UNCHANGED panicked
  /\ UNCHANGED <<fieldsIdle, connected, conn, sockOpen, attempt, hbPc,
                 ticksLeft, sndPc, pollsLeft>>

\* Disconnect that forgets the socket it closes (a.conn = nil)
DisconnectNilsConn(who) ==
  /\ Running /\ DisconnectPc(who) = "line104"
  /\ sockOpen' = FALSE /\ conn' = 0
  /\ DisconnectGoes(who, "line107")
  /\ UNCHANGED <<fieldsIdle, connected, stopClosed, attempt, hbPc,
                 panicked, ticksLeft, sndPc, pollsLeft>>

\* if a.conn != nil { a.conn.Close() }: the field keeps the closed socket
DisconnectCloseConn(who) ==
  /\ Running /\ DisconnectPc(who) = "line104"
  /\ sockOpen' = IF conn # 0 THEN FALSE ELSE sockOpen
  /\ DisconnectGoes(who, "line107")
  /\ UNCHANGED <<fieldsIdle, connected, conn, stopClosed, attempt, hbPc,
                 panicked, ticksLeft, sndPc, pollsLeft>>

\* a.connected = false; Disconnect returns: runService goes back to the top
\* of its loop, main returns and the process ends
DisconnectClearConnected(who) ==
  /\ Running /\ DisconnectPc(who) = "line107"
  /\ connected' = FALSE
  /\ DisconnectGoes(who, IF who = "main" THEN "exited" ELSE "top")
  /\ UNCHANGED <<fieldsIdle, conn, sockOpen, stopClosed, attempt, hbPc,
                 panicked, ticksLeft, sndPc, pollsLeft>>

\* the select of the heartbeat goroutine started after the Connect of socket
\* t: it returns on the closed stop channel, or on a tick reads a.connected
HeartbeatSelect(t) ==
  /\ Running /\ hbPc[t] = "select"
  /\ \/ /\ stopClosed
        /\ hbPc' = [hbPc EXCEPT ![t] = "exited"]
        /\ UNCHANGED ticksLeft
     \/ /\ ticksLeft > 0
        /\ ticksLeft' = ticksLeft - 1
        /\ hbPc' = [hbPc EXCEPT ![t] = IF connected THEN "line412" ELSE "select"]
  /\ UNCHANGED <<fieldsIdle, clientVars, mainPc, supPc, attempt, panicked,
                 sndPc, pollsLeft>>

\* a.conn.Write of the beacon: a method call on the nil interface is a panic
HeartbeatDereference(t) ==
  /\ Running /\ hbPc[t] = "line412"
  /\ IF conn = 0
     THEN panicked' = TRUE /\ hbPc' = [hbPc EXCEPT ![t] = "nilConn"]
     ELSE hbPc' = [hbPc EXCEPT ![t] = "select"] /\ UNCHANGED panicked
  /\ UNCHANGED <<fieldsIdle, clientVars, mainPc, supPc, attempt, ticksLeft,
                 sndPc, pollsLeft>>

\* a tick of runMessageSender: "if !aprsClient.IsConnected() { continue }",
\* then a pending job is fetched and prepared
SenderIsConnected ==
  /\ Running /\ sndPc = "wait" /\ pollsLeft > 0
  /\ pollsLeft' = pollsLeft - 1
  /\ sndPc' = IF IsConnected(connected) THEN "line365" ELSE "wait"
  /\ UNCHANGED <<fieldsIdle, clientVars, mainPc, supPc, attempt, hbPc,
                 panicked, ticksLeft>>

\* SendMessage: "if !a.connected { return error }"
SenderSendMessage ==
  /\ Running /\ sndPc = "line365"
  /\ sndPc' = IF connected THEN "line383" ELSE "wait"
  /\ UNCHANGED <<fieldsIdle, clientVars, mainPc, supPc, attempt, hbPc,
                 panicked, ticksLeft, pollsLeft>>

\* SendMessage: a.conn.Write(packet), a panic on the nil interface
SenderDereference ==
  /\ Running /\ sndPc = "line383"
  /\ IF conn = 0
     THEN panicked' = TRUE /\ sndPc' = "nilConn"
     ELSE sndPc' = "wait" /\ UNCHANGED panicked
  /\ UNCHANGED <<fieldsIdle, clientVars, mainPc, supPc, attempt, hbPc,
                 ticksLeft, pollsLeft>>

\* main has started runService and runMessageSender and waits for a signal
InitFields ==
  /\ connected = FALSE /\ conn = 0 /\ sockOpen = FALSE /\ stopClosed = FALSE
  /\ link = "down"
  /\ mainPc = "wait" /\ supPc = "top"
  /\ attempt = 0 /\ delay = InitialDelay
  /\ listenErr = "none"
  /\ hbPc = [t \in Sockets |-> "none"]
  /\ ctxDone = FALSE /\ panicked = FALSE
  /\ cur = NoPkt
  /\ db = EmptyDb
  /\ sockOut = <<>>
  /\ corrSeq = 0
  /\ linesLeft = 0 /\ faultsLeft = 0
  /\ ticksLeft = MaxBeacons
  /\ discCalls = 0
  /\ results = <<>>
  /\ sndPc = "wait" /\ batch = <<>> /\ pollsLeft = MaxPolls /\ sendLog = <<>>
  /\ codecIn = NoInput /\ codecOut = NoOutput

NextFields ==
  \/ ConnectDial \/ ConnectStoreConn \/ ConnectSetConnected \/ ConnectLogin
  \/ ConnectClearConnected
  \/ \E who \in {"sup", "main"} :
       \/ DisconnectCalled(who) \/ DisconnectCloseStop(who)
       \/ DisconnectCloseConn(who) \/ DisconnectClearConnected(who)
  \/ \E t \in Sockets : HeartbeatSelect(t) \/ HeartbeatDereference(t)
  \/ SenderIsConnected \/ SenderSendMessage \/ SenderDereference

SpecFields == InitFields /\ [][NextFields]_vars

(***************************************************************************)
(* The socket behind the connected flag.                                   *)
(***************************************************************************)
\* the fields themselves: whenever connected is true a socket has been stored
ConnectedHasSocket == connected => conn # 0

\* a task that found connected true called Write on a nil a.conn
NilDereferenced ==
  sndPc = "nilConn" \/ \E t \in Sockets : hbPc[t] = "nilConn"

\* C38: in every reachable state connected = true implies that conn is not
\* nil, and no task that checked the connected flag before writing calls
\* Write on a nil socket
C38_NoNilSocketBehindFlag == ConnectedHasSocket /\ ~NilDereferenced

\* the dispatcher found connected true in SendMessage and is about to write
\* when a Disconnect has closed the socket and cleared the flag: the field
\* still holds the closed socket
C38_WriterOvertakenByDisconnect ==
  /\ sndPc = "line383"
  /\ ~connected /\ ~sockOpen /\ stopClosed
  /\ conn # 0

(***************************************************************************)
(* The status the Record Store is left with by a graceful shutdown.        *)
(***************************************************************************)
\* main has made its final UpdateSystemStatus("aprs-connector", "offline")
FinalStatusWritten == mainPc \in {"return", "cancelled", "exited"}

\* C39: once the graceful shutdown has made its final "offline" status
\* write, no task writes "online" any more: the status the Record Store
\* holds for the connector stays "offline"
C39_OfflineStaysLast == FinalStatusWritten => StoredStatus(db) = "offline"

(***************************************************************************)
(* The content recorded for a delivery and the content on the wire.        *)
(***************************************************************************)
\* the deliveries: the jobs handled with a SendMessage that returned nil
Deliveries == {i \in Handlings : sendLog[i].valid /\ ~sendLog[i].sendErr}

\* the truncation of SendMessage leaves the content alone
SendMessageKeeps(content) == Len(content) <= SendLimit

\* C40: the truncation inside SendMessage is a no-op on the content that
\* truncateForAPRS(., 67) returns, so the truncated_content the dispatcher
\* records in the metadata of a delivered job is exactly the content part
\* of the line written for the job
C40_RecordedContentIsWireContent ==
  /\ \A n \in SendCut..(SendLimit + MaxPad) :
       SendMessageKeeps(truncateForAPRS(Digits(n), APRSLimit).s)
  /\ \A i \in Deliveries :
       /\ SendMessageKeeps(sendLog[i].truncated)
       /\ sendLog[i].metadata.truncated_content = sendLog[i].truncated
       /\ WireOf(sendLog[i].id) # {}
       /\ \A j \in WireOf(sendLog[i].id) :
            sockOut[j].content = sendLog[i].metadata.truncated_content
       /\ ~sendLog[i].patchErr =>
            JobOf(sendLog[i].id).metadata.truncated_content
              = sendLog[i].truncated

\* a job with a content of 100 characters is delivered, and the 67
\* characters its record holds as truncated_content are the content part of
\* its line
C40_CutContentRecorded ==
  \E i \in Deliveries :
    /\ Len(sendLog[i].content) > SendLimit
    /\ ~sendLog[i].patchErr
    /\ JobOf(sendLog[i].id).status = "delivered"
    /\ Len(JobOf(sendLog[i].id).metadata.truncated_content) = SendLimit
    /\ \E j \in WireOf(sendLog[i].id) :
         sockOut[j].content = JobOf(sendLog[i].id).metadata.truncated_content

====
